---- MODULE Spec2Model ----
(***************************************************************************)
(* A model of termsnap: the byte ring buffer (src/src/ringbuffer.rs) and   *)
(* the PTY proxy loops (src/src/main.rs).                                  *)
(***************************************************************************)
EXTENDS Integers, Sequences, FiniteSets, TLC

(***************************************************************************)
(* Bounds of the model.                                                    *)
(***************************************************************************)
\* The capacity C of Ringbuffer<C>; main.rs instantiates it with 4096.
C == 3

\* How many bytes the sources of the ring-only specification supply in all.
MaxSupplied == 6

\* How many bytes arrive on parent stdin and are written by the child, taken
\* together, in one run.
MaxBytes == 3

\* How many bytes the PTY holds for the child before a write would block.
PtyCap == 2

\* The length of the scratch buffer stdout_buf; main.rs allocates 4096.
StdoutBufLen == 2

\* The most fragments the response queue takes; main.rs allows 128.
PtyWriteCap == 2

\* The poll timeout of 500 ms, in clock ticks.
Timeout == 2

\* How many EOT sequences the proxy enqueues before the model stops it.
MaxEot == 2

\* How many bytes arrive on parent stdin and from the child in interactive:
\* enough for a read of parent stdin to block after filling its slice and
\* then to go on.
IAMaxBytes == 4

\* How many SIGWINCHs are delivered to the loop of interactive taken
\* statement by statement.
MaxSigwinch == 5

\* How many responses the emulator emits when the queue is taken by itself.
MaxEmitted == 7

VARIABLES
    \* ---- Ringbuffer driven by arbitrary sources and sinks ----
    rb,          \* the Ringbuffer: buf, write_idx, read_idx
    supplied,    \* every byte a source handed over, in order
    drained,     \* every byte a sink accepted, in order
    overflowed,  \* more than C unread bytes were held at some point
    lastOp,      \* "new", "read" or "write"
    lastRes,     \* the IoResult of the last call, with what the call did
    \* ---- non_interactive: the proxy ----
    pc,                 \* where the loop stands
    stdin_buf,          \* Ringbuffer between parent stdin and the PTY
    pty_write,          \* response fragments of the emulator, oldest first
    eot_state,          \* "None", "SendEot" or "SentEot"
    eot_elapsed,        \* ticks since the Instant of SentEot, up to Timeout
    poll_fds,           \* which of the three poll slots are populated
    poll_result,        \* what poll returned for them
    poll_elapsed,       \* ticks spent in the current poll
    last_written_byte,
    term,               \* the emulator: the bytes processed so far
    screen,             \* what non_interactive returned
    \* ---- non_interactive: parent stdin, the PTY and the child ----
    stdin_pending,      \* bytes waiting on parent stdin
    stdin_state,        \* "open", "closed" (end of file) or "error"
    pty_out,            \* bytes the child wrote, not yet read by the proxy
    pty_in,             \* bytes the proxy wrote, not yet read by the child
    child_state,        \* "running" or "exited"
    hangup,             \* the PTY reports hangup (no process holds the slave)
    child_event,        \* next_child_event() would return Exited
    \* ---- non_interactive: history, for the properties ----
    stdin_read,         \* bytes the ring accepted from parent stdin
    stdin_res,          \* IoResult variant of this iteration's stdin read
    written,            \* cells the PTY accepted from the ring
    eot_count,          \* EOT sequences enqueued so far
    pty_failed,         \* a read or write of the PTY returned a lasting error
    poll_err,           \* how the last call of poll failed: "none", "EINTR"
                        \* or "other"
    exit_elapsed,       \* ticks the child-exit event has been waiting
    \* ---- the response queue driven by an emulator and a loop ----
    outbound,           \* the VecDeque of fragments
    emitted,            \* every fragment the emulator emitted, in order
    popped,             \* every fragment pop_front returned, in order
    \* ---- interactive: the proxy ----
    ia_pc,              \* "off" (not called), "top", "poll", "stdin_blocked",
                        \* "done", "failed" or "panicked"
    ia_stdin_buf,       \* Ringbuffer between parent stdin and the PTY
    ia_stdout_buf,      \* Ringbuffer between the PTY and parent stdout
    ia_term,            \* the emulator: the bytes processed so far
    term_size,          \* the emulator's <<lines, columns>>
    pty_size,           \* the window size of the PTY
    attrs,              \* attributes of the parent's terminal: "orig", "raw"
    orig_attrs,         \* what tcgetattr returned in with_raw: "Ok" or "Err"
    ia_poll_fds,        \* which of the four poll slots are populated
    ia_poll_result,     \* what poll returned for them
    ia_result,          \* what interactive returned
    \* ---- interactive: the terminal, the PTY and the child ----
    window_size_changed, \* the flag SIGWINCH sets
    tty_size,           \* the size of the parent's terminal
    ia_stdin_pending,   \* bytes waiting on parent stdin
    ia_pty_out,         \* bytes the child wrote, not yet read by the proxy
    ia_pty_in,          \* bytes the proxy wrote, not yet read by the child
    ia_stdout,          \* bytes parent stdout accepted
    stdout_state,       \* "ok" or "broken"
    ia_child,           \* "running", "exited" or "event" (exit event seen)
    ia_hangup,          \* the PTY reports hangup
    \* ---- interactive: history, for the properties ----
    ia_pty_read,        \* bytes the stdout ring accepted from the PTY
    ia_stdin_read,      \* bytes the stdin ring accepted from parent stdin
    ia_pty_written,     \* bytes the PTY accepted from the stdin ring
    ia_poll_err,        \* how the last call of poll failed
    ia_resized,         \* pty.on_resize and term.resize have been called
    \* ---- Term::process_with_callback driven by any handler actions ----
    em_term,            \* the emulator: active and inactive grid, scrollback,
                        \* and whether the alternate screen is the active one
    cb_calls,           \* every call of the callback: the signal and the
                        \* screen the callback saw, oldest first
    em_last,            \* the handler action of the last byte processed
    em_steps,           \* how many handler actions have been dispatched
    \* ---- Term (termsnap-lib) fed a byte stream, resized and snapshotted ----
    tm_term,            \* <<>> before Term::new, then <<the Term>>: lines,
                        \* columns, term (the emulator) and processor
    tm_stream,          \* <<the stream chosen>>: prefix, sgr, run, suffix
    tm_bytes,           \* the bytes of it still to be processed
    tm_screens,         \* the Screens current_screen returned, oldest first
    tm_resizes,         \* how many times resize has been called
    \* ---- main (src/src/main.rs): the command line and what main did ----
    main_pc,            \* "parse", "interactive", "command", "run", "write",
                        \* "done"
    main_cli,           \* <<>> before Cli::parse, then <<the arguments and
                        \* whether stdin and stdout are terminals>>
    main_stderr,        \* the warnings printed, oldest first
    main_started,       \* what run started: "none", "interactive",
                        \* "non_interactive" or "from_read"
    main_result,        \* "none", "Ok" or "Err"
    \* ---- Screen::to_svg (termsnap-lib): a Screen formatted as SVG ----
    svg_screen,         \* <<>>, then <<the Screen formatted>>: its lines,
                        \* its columns and its cells up to the last that is
                        \* not the blank of an empty grid
    svg_build,          \* "debug" or "release": whether integer overflow
                        \* panics or wraps
    svg_out,            \* what each formatting of the Screen wrote, oldest
                        \* first: whether it panicked, and the elements
    \* ---- Colors (termsnap-lib/src/colors.rs): the colour table ----
    col_table,          \* <<>> before Colors::default, then <<the table>>:
                        \* for each index None (<<>>) or Some(rgb) (<<rgb>>)
    col_result,         \* <<>>, then <<the colour last asked for, what
                        \* to_rgb found in its slot>>
    \* ---- interactive: the SIGWINCH flag, statement by statement ----
    wsc_pc,             \* "top", "load", "store", "getsize", "resize",
                        \* "enter_poll", "in_poll", "eintr", "done", "failed"
    wsc_flag,           \* window_size_changed, the AtomicBool
    wsc_tty,            \* the size of the parent's terminal
    wsc_winsize,        \* what tcgetwinsize returned last
    wsc_pty,            \* the window size of the PTY
    wsc_term,           \* the emulator's <<lines, columns>>
    wsc_signals         \* SIGWINCHs delivered so far

ringVars == <<rb, supplied, drained, overflowed, lastOp, lastRes>>

proxyVars ==
    <<pc, stdin_buf, pty_write, eot_state, eot_elapsed, poll_fds,
      poll_result, poll_elapsed, last_written_byte, term, screen>>

envVars ==
    <<stdin_pending, stdin_state, pty_out, pty_in, child_state, hangup,
      child_event>>

histVars ==
    <<stdin_read, stdin_res, written, eot_count, pty_failed, poll_err>>

niVars == <<proxyVars, envVars, histVars, exit_elapsed>>

queueVars == <<outbound, emitted, popped>>

iaProxyVars ==
    <<ia_pc, ia_stdin_buf, ia_stdout_buf, ia_term, term_size, pty_size,
      attrs, orig_attrs, ia_poll_fds, ia_poll_result, ia_result>>

iaEnvVars ==
    <<window_size_changed, tty_size, ia_stdin_pending, ia_pty_out, ia_pty_in,
      ia_stdout, stdout_state, ia_child, ia_hangup>>

iaHistVars ==
    <<ia_pty_read, ia_stdin_read, ia_pty_written, ia_poll_err, ia_resized>>

iaVars == <<iaProxyVars, iaEnvVars, iaHistVars>>

\* The variables of the parts that are not the ring and not non_interactive.
cbVars == <<em_term, cb_calls, em_last, em_steps>>

tmVars == <<tm_term, tm_stream, tm_bytes, tm_screens, tm_resizes>>

\* The variables of the library parts other than process_with_callback.
mainVars == <<main_pc, main_cli, main_stderr, main_started, main_result>>

svgVars == <<svg_screen, svg_build, svg_out>>

colVars == <<col_table, col_result>>

wscVars ==
    <<wsc_pc, wsc_flag, wsc_tty, wsc_winsize, wsc_pty, wsc_term, wsc_signals>>

libVars == <<tmVars, mainVars, svgVars, colVars, wscVars>>

restVars == <<queueVars, iaVars, cbVars, libVars>>

vars == <<ringVars, niVars, restVars>>

(***************************************************************************)
(* Helpers on sequences.                                                   *)
(***************************************************************************)
Min(a, b) == IF a < b THEN a ELSE b

Take(s, n) == SubSeq(s, 1, n)

Drop(s, n) == SubSeq(s, n + 1, Len(s))

IsPrefix(s, t) == Len(s) <= Len(t) /\ SubSeq(t, 1, Len(s)) = s

(***************************************************************************)
(* Ringbuffer<C>.  buf is indexed 0..C-1 as in the source.                 *)
(***************************************************************************)
Ringbuffer_new ==
    [buf |-> [i \in 0..(C - 1) |-> 0], write_idx |-> 0, read_idx |-> 0]

\* fn unfilled(&self) -> Range<usize>
unfilled(r) ==
    [start |-> r.write_idx,
     end   |-> IF r.read_idx <= r.write_idx THEN C ELSE r.read_idx]

\* fn filled(&self) -> Range<usize>
filled(r) ==
    [start |-> r.read_idx,
     end   |-> IF r.read_idx <= r.write_idx THEN r.write_idx ELSE C]

\* Range::len(): an empty range when end <= start
RangeLen(range) ==
    IF range.end > range.start THEN range.end - range.start ELSE 0

\* fn bytes(&self, from, to) -> Bytes
bytes(r, from, to) == [buf |-> r.buf, to |-> to, cur |-> from]

capacity == C

\* fn len(&self) -> usize
len(r) ==
    IF r.write_idx < r.read_idx
    THEN r.write_idx + C - r.read_idx
    ELSE r.write_idx - r.read_idx

is_empty(r) == len(r) = 0

is_full(r) == len(r) = C

\* Iterator for Bytes: next() until None, collected into a sequence.
\* At most C items can come out: cur returns to `to` within C steps.
RECURSIVE BytesCollect(_, _)
BytesCollect(b, fuel) ==
    IF b.cur = b.to \/ fuel = 0
    THEN <<>>
    ELSE LET idx  == b.cur
             cur1 == IF idx + 1 = C THEN 0 ELSE idx + 1
         IN  <<b.buf[idx]>> \o BytesCollect([b EXCEPT !.cur = cur1], fuel - 1)

BytesSeq(b) == BytesCollect(b, C)

\* Bytes::size_hint / ExactSizeIterator::len
BytesLen(b) ==
    IF b.to < b.cur THEN b.to + C - b.cur ELSE b.to - b.cur

(***************************************************************************)
(* One call on the underlying source or sink ends in one of:              *)
(*   [kind |-> "ok", n |-> k]   k bytes transferred (0: end of file)       *)
(*   [kind |-> "ignored"]       ErrorKind::WouldBlock or Interrupted       *)
(*   [kind |-> "error"]         any other io::Error                        *)
(***************************************************************************)
OkN(n) == [kind |-> "ok", n |-> n]

Ignored == [kind |-> "ignored", n |-> 0]

Failed == [kind |-> "error", n |-> 0]

Outcomes(maxn) == {OkN(n) : n \in 0..maxn} \cup {Ignored, Failed}

\* An index that is advanced and never wrapped.
AdvanceNoWrap(idx, n) == idx + n

\* self.write_idx += n; if self.write_idx == C { self.write_idx = 0 }
Advance(idx, n) == IF idx + n = C THEN 0 ELSE idx + n

\* buf[start .. start+n] := the first n bytes of data
Store(buf, start, data, n) ==
    [i \in 0..(C - 1) |->
        IF i >= start /\ i < start + n THEN data[i - start + 1] ELSE buf[i]]

\* The loop state of read/write: ctl is "run" while the for loop goes on,
\* "break" once it has been left, "error" once the function has returned Err.
\* log keeps, for each call made on the source or sink, the length of the
\* slice it was offered and its answer.
LoopStart(r, data) ==
    [rb |-> r, count |-> 0, eof |-> FALSE, ctl |-> "run", calls |-> 0,
     data |-> data, moved |-> <<>>, log |-> <<>>]

\* A loop that goes on after a short transfer.
AfterOkShortGoesOn(n, count, slice) == IF n = 0 THEN "break" ELSE "run"

\* if n == 0 { eof = true; break; }  if bytes_read < unfilled.len() { break; }
AfterOk(n, count, slice) == IF n = 0 \/ count < slice THEN "break" ELSE "run"

Called(st, slice, oc) == Append(st.log, [offered |-> slice, oc |-> oc])

\* One pass of the for loop of Ringbuffer::read, the source answering oc out
\* of st.data.
ReadPass(st, oc) ==
    LET range == unfilled(st.rb)
        ulen  == RangeLen(range)
    IN  IF st.ctl # "run" THEN st
        ELSE IF ulen = 0 THEN [st EXCEPT !.ctl = "break"]
        ELSE IF oc.kind = "ok" THEN
            LET n     == oc.n
                count == st.count + n
            IN  [st EXCEPT
                    !.rb = [st.rb EXCEPT
                               !.buf = Store(st.rb.buf, range.start, st.data, n),
                               !.write_idx = Advance(st.rb.write_idx, n)],
                    !.count = count,
                    !.calls = st.calls + 1,
                    !.data  = Drop(st.data, n),
                    !.moved = st.moved \o Take(st.data, n),
                    !.eof   = (n = 0),
                    !.log   = Called(st, ulen, oc),
                    !.ctl   = AfterOk(n, count, ulen)]
        ELSE IF oc.kind = "ignored" THEN
            [st EXCEPT !.calls = st.calls + 1, !.ctl = "break",
                       !.log = Called(st, ulen, oc)]
        ELSE [st EXCEPT !.calls = st.calls + 1, !.ctl = "error",
                        !.log = Called(st, ulen, oc)]

\* What a call returns: the ring after it, the IoResult variant, the Bytes
\* iterator it carries, and (for the properties) the bytes really transferred and
\* the number of calls made on the source or sink.
Result(st, from, to) ==
    [rb    |-> st.rb,
     res   |-> IF st.ctl = "error" THEN "Err"
               ELSE IF st.eof THEN "EOF" ELSE "Ok",
     bytes |-> bytes(st.rb, from, to),
     moved |-> st.moved,
     calls |-> st.calls,
     log   |-> st.log]

\* pub fn read(&mut self, read: &mut impl Read) -> IoResult
read(r, data, o1, o2) ==
    LET st == ReadPass(ReadPass(LoopStart(r, data), o1), o2)
    IN  Result(st, r.write_idx, st.rb.write_idx)

\* One pass of the for loop of Ringbuffer::write, the sink answering oc.
WritePass(st, oc) ==
    LET range == filled(st.rb)
        flen  == RangeLen(range)
    IN  IF st.ctl # "run" THEN st
        ELSE IF flen = 0 THEN [st EXCEPT !.ctl = "break"]
        ELSE IF oc.kind = "ok" THEN
            LET n     == oc.n
                count == st.count + n
            IN  [st EXCEPT
                    !.rb = [st.rb EXCEPT
                               !.read_idx = Advance(st.rb.read_idx, n)],
                    !.count = count,
                    !.calls = st.calls + 1,
                    !.moved = st.moved \o
                              [i \in 1..n |-> st.rb.buf[range.start + i - 1]],
                    !.eof   = (n = 0),
                    !.log   = Called(st, flen, oc),
                    !.ctl   = AfterOk(n, count, flen)]
        ELSE IF oc.kind = "ignored" THEN
            [st EXCEPT !.calls = st.calls + 1, !.ctl = "break",
                       !.log = Called(st, flen, oc)]
        ELSE [st EXCEPT !.calls = st.calls + 1, !.ctl = "error",
                        !.log = Called(st, flen, oc)]

\* pub fn write(&mut self, write: &mut impl Write) -> IoResult
write(r, o1, o2) ==
    LET st == WritePass(WritePass(LoopStart(r, <<>>), o1), o2)
    IN  Result(st, r.read_idx, st.rb.read_idx)

\* A source that hands over as much of data as fits the slice it is offered,
\* as <&[u8] as Read>::read does.
SliceAnswer(st) == OkN(Min(RangeLen(unfilled(st.rb)), Len(st.data)))

SliceRead(r, data) ==
    LET s0 == LoopStart(r, data)
        s1 == ReadPass(s0, SliceAnswer(s0))
        s2 == ReadPass(s1, SliceAnswer(s1))
    IN  Result(s2, r.write_idx, s2.rb.write_idx)

\* A sink that accepts every slice whole.
DrainAll(r) ==
    LET s0 == LoopStart(r, <<>>)
        s1 == WritePass(s0, OkN(RangeLen(filled(s0.rb))))
        s2 == WritePass(s1, OkN(RangeLen(filled(s1.rb))))
    IN  s2.moved

\* A source may hand over at most the slice it is offered (and at most what it
\* has); a sink may accept at most the slice it is offered.
ReadOutcomeFits(st, oc, have) ==
    oc.kind = "ok" => oc.n <= Min(RangeLen(unfilled(st.rb)), have)

WriteOutcomeFits(st, oc) ==
    oc.kind = "ok" => oc.n <= RangeLen(filled(st.rb))

\* The second answer matters only when the loop makes a second call.
ReadAnswers(r, have) ==
    {o \in Outcomes(C) \X Outcomes(C) :
        LET s0 == LoopStart(r, <<>>)
            s1 == ReadPass([s0 EXCEPT !.data = [i \in 1..have |-> 0]], o[1])
        IN  /\ ReadOutcomeFits(s0, o[1], have)
            /\ IF s1.ctl = "run" /\ RangeLen(unfilled(s1.rb)) > 0
               THEN ReadOutcomeFits(s1, o[2], have - o[1].n)
               ELSE o[2] = Ignored}

WriteAnswers(r) ==
    {o \in Outcomes(C) \X Outcomes(C) :
        LET s0 == LoopStart(r, <<>>)
            s1 == WritePass(s0, o[1])
        IN  /\ WriteOutcomeFits(s0, o[1])
            /\ IF s1.ctl = "run" /\ RangeLen(filled(s1.rb)) > 0
               THEN WriteOutcomeFits(s1, o[2])
               ELSE o[2] = Ignored}

(***************************************************************************)
(* non_interactive (src/src/main.rs).  A cell of stdin_buf is a byte with, *)
(* in the bits above it, where the byte came from; the code sees ByteOf.   *)
(***************************************************************************)
END_OF_TRANSMISSION == 4

CR == 13

\* A printable byte, typed on parent stdin or printed by the child: the h
\* of "hello, world".
Letter == 104

\* The last byte of a status request of the child (ESC [ 5 n): on processing
\* it the emulator sends the response to its PtyWriter.
DSR == 110

FromStdin(b) == b

FromResponse(b) == 256 + b

FromEot(b) == 512 + b

ByteOf(cell) == cell % 256

IsFromStdin(cell) == cell \div 256 = 0

IsFromResponse(cell) == cell \div 256 = 1

IsFromEot(cell) == cell \div 256 = 2

StdinBytes == {Letter, CR}

ChildBytes == {Letter, DSR}

\* The text the emulator answers a status request with, cut down to two
\* bytes: ESC and the final n.
Response == <<FromResponse(27), FromResponse(DSR)>>

Last(s) == s[Len(s)]

\* pty_write.borrow_mut().pop_front()
PopFront(queue) == Tail(queue)

\* A closure that lets the queue grow without end.
PtyWriterWriteUnbounded(queue, text) == Append(queue, text)

\* Term::new's pty_writer closure: push_back unless 128 fragments are held.
PtyWriterWrite(queue, text) ==
    IF Len(queue) < PtyWriteCap THEN Append(queue, text) ELSE queue

\* term.process(byte) for each byte of data in turn: what the response queue
\* holds afterwards.
RECURSIVE ProcessAll(_, _)
ProcessAll(queue, data) ==
    IF data = <<>> THEN queue
    ELSE ProcessAll(IF Head(data) = DSR
                    THEN PtyWriterWrite(queue, Response)
                    ELSE queue,
                    Tail(data))

\* A send_eot that does not wait for the 500 ms, and one that never resends.
SendEotAlways(state, elapsed) == state # "None"

SendEotOnce(state, elapsed) == state = "SendEot"

\* let send_eot = match eot_state { ... }

SendEot(state, elapsed) ==
    CASE state = "None"    -> FALSE
      [] state = "SendEot" -> TRUE
      [] state = "SentEot" -> elapsed >= Timeout

\* A read_stdin that does not look at eot_state.
ReadStdinAfterEof(ring, state, queue) == ~is_full(ring) /\ queue = <<>>

\* let read_stdin = !stdin_buf.is_full() && matches!(eot_state, None)
\*                  && pty_write.borrow().is_empty()

ReadStdin(ring, state, queue) ==
    ~is_full(ring) /\ state = "None" /\ queue = <<>>

\* The EOT sequence: \x04 alone after a \r, else \r\x04.
EotSeq(last) ==
    IF last = CR
    THEN <<FromEot(END_OF_TRANSMISSION)>>
    ELSE <<FromEot(CR), FromEot(END_OF_TRANSMISSION)>>

\* if let Some(Exited(_)) = pty.next_child_event() { break; }
LoopBreaks(event) == event

\* What the three descriptors would report to poll.
StdinReady == stdin_pending # <<>> \/ stdin_state # "open"

PtyReadable == pty_out # <<>> \/ hangup

PtyWritable == Len(pty_in) < PtyCap \/ hangup

PollReady ==
    <<poll_fds[1] /\ StdinReady, poll_fds[2] /\ PtyReadable,
      poll_fds[3] /\ PtyWritable>>

AnyReady(r) == r[1] \/ r[2] \/ r[3]

\* Some(Duration::from_millis(500)): poll gives up after Timeout ticks.
PollTimedOut(elapsed) == elapsed >= Timeout

Tock(clock) == IF clock < Timeout THEN clock + 1 ELSE clock

DEFAULT_NUM_LINES == 24

DEFAULT_NUM_COLUMNS == 80

\* The sizes the parent's terminal may have, as <<lines, columns>>.
TtySizes ==
    {<<DEFAULT_NUM_LINES, DEFAULT_NUM_COLUMNS>>,
     <<2 * DEFAULT_NUM_LINES, 2 * DEFAULT_NUM_COLUMNS>>}

\* Ringbuffer::new() for both rings, and the locals of non_interactive as
\* they are when the loop is entered; nothing has happened around it yet.
Init ==
    /\ rb = Ringbuffer_new
    /\ supplied = <<>>
    /\ drained = <<>>
    /\ overflowed = FALSE
    /\ lastOp = "new"
    /\ lastRes = Result(LoopStart(Ringbuffer_new, <<>>), 0, 0)
    /\ pc = "top"
    /\ stdin_buf = Ringbuffer_new
    /\ pty_write = <<>>
    /\ eot_state = "None"
    /\ eot_elapsed = 0
    /\ poll_fds = <<FALSE, FALSE, FALSE>>
    /\ poll_result = <<FALSE, FALSE, FALSE>>
    /\ poll_elapsed = 0
    /\ last_written_byte = 0
    /\ term = <<>>
    /\ screen = <<"none">>
    /\ stdin_pending = <<>>
    /\ stdin_state = "open"
    /\ pty_out = <<>>
    /\ pty_in = <<>>
    /\ child_state = "running"
    /\ hangup = FALSE
    /\ child_event = FALSE
    /\ stdin_read = <<>>
    /\ stdin_res = "none"
    /\ written = <<>>
    /\ eot_count = 0
    /\ pty_failed = FALSE
    /\ poll_err = "none"
    /\ exit_elapsed = 0
    /\ outbound = <<>>
    /\ emitted = <<>>
    /\ popped = <<>>
    /\ ia_pc = "off"
    /\ ia_stdin_buf = Ringbuffer_new
    /\ ia_stdout_buf = Ringbuffer_new
    /\ ia_term = <<>>
    /\ term_size = <<DEFAULT_NUM_LINES, DEFAULT_NUM_COLUMNS>>
    /\ pty_size = <<DEFAULT_NUM_LINES, DEFAULT_NUM_COLUMNS>>
    /\ attrs = "orig"
    /\ orig_attrs = "Err"
    /\ ia_poll_fds = <<FALSE, FALSE, FALSE, FALSE>>
    /\ ia_poll_result = <<FALSE, FALSE, FALSE, FALSE>>
    /\ ia_result = <<"none">>
    /\ window_size_changed = FALSE
    /\ tty_size = <<DEFAULT_NUM_LINES, DEFAULT_NUM_COLUMNS>>
    /\ ia_stdin_pending = <<>>
    /\ ia_pty_out = <<>>
    /\ ia_pty_in = <<>>
    /\ ia_stdout = <<>>
    /\ stdout_state = "ok"
    /\ ia_child = "running"
    /\ ia_hangup = FALSE
    /\ ia_pty_read = <<>>
    /\ ia_stdin_read = <<>>
    /\ ia_pty_written = <<>>
    /\ ia_poll_err = "none"
    /\ ia_resized = FALSE
    /\ em_term = [grid |-> <<" ", " ">>, inactive |-> <<" ", " ">>,
                  history |-> " ", alt |-> FALSE]
    /\ cb_calls = <<>>
    /\ em_last = [name |-> "none", arg |-> "none"]
    /\ em_steps = 0
    /\ tm_term = <<>>
    /\ tm_stream = <<>>
    /\ tm_bytes = <<>>
    /\ tm_screens = <<>>
    /\ tm_resizes = 0
    /\ main_pc = "parse"
    /\ main_cli = <<>>
    /\ main_stderr = <<>>
    /\ main_started = "none"
    /\ main_result = "none"
    /\ svg_screen = <<>>
    /\ svg_build = "release"
    /\ svg_out = <<>>
    /\ col_table = <<>>
    /\ col_result = <<>>
    /\ wsc_pc = "top"
    /\ wsc_flag = FALSE
    /\ wsc_tty = <<DEFAULT_NUM_LINES, DEFAULT_NUM_COLUMNS>>
    /\ wsc_winsize = <<DEFAULT_NUM_LINES, DEFAULT_NUM_COLUMNS>>
    /\ wsc_pty = <<DEFAULT_NUM_LINES, DEFAULT_NUM_COLUMNS>>
    /\ wsc_term = <<DEFAULT_NUM_LINES, DEFAULT_NUM_COLUMNS>>
    /\ wsc_signals = 0

\* Lines 153-155: the child has exited; leave the loop and return
\* term.current_screen().
LoopExit ==
    /\ pc = "top"
    /\ LoopBreaks(child_event)
    /\ pc' = "done"
    /\ screen' = <<"screen", term>>
    /\ UNCHANGED <<stdin_buf, pty_write, eot_state, eot_elapsed, poll_fds,
                   poll_result, poll_elapsed, last_written_byte, term>>
    /\ UNCHANGED <<envVars, histVars, ringVars, exit_elapsed>>
    /\ UNCHANGED restVars

\* Lines 157-195: from the top of an iteration to the call of poll.
LoopTop ==
    /\ pc = "top"
    /\ ~LoopBreaks(child_event)
    /\ LET send_eot == SendEot(eot_state, eot_elapsed)
           read_stdin == ReadStdin(stdin_buf, eot_state, pty_write)
           pop   == is_empty(stdin_buf) /\ pty_write # <<>>
           eot   == is_empty(stdin_buf) /\ pty_write = <<>> /\ send_eot
           ring1 == IF pop THEN SliceRead(stdin_buf, Head(pty_write)).rb
                    ELSE IF eot
                    THEN SliceRead(stdin_buf, EotSeq(last_written_byte)).rb
                    ELSE stdin_buf
           queue1 == IF pop THEN PopFront(pty_write) ELSE pty_write
       IN  /\ eot => eot_count < MaxEot
           /\ pop => Len(Head(pty_write)) <= capacity
           /\ stdin_buf' = ring1
           /\ pty_write' = queue1
           /\ eot_state' = IF eot THEN "SentEot" ELSE eot_state
           /\ eot_elapsed' = IF eot THEN 0 ELSE eot_elapsed
           /\ eot_count' = IF eot THEN eot_count + 1 ELSE eot_count
           /\ poll_fds' = <<read_stdin, TRUE,
                            ~is_empty(ring1) \/ send_eot \/ queue1 # <<>> >>
    /\ poll_result' = <<FALSE, FALSE, FALSE>>
    /\ poll_elapsed' = 0
    /\ stdin_res' = "none"
    /\ poll_err' = "none"
    /\ pc' = "poll"
    /\ UNCHANGED <<last_written_byte, term, screen>>
    /\ UNCHANGED <<stdin_read, written, pty_failed>>
    /\ UNCHANGED <<envVars, ringVars, exit_elapsed>>
    /\ UNCHANGED restVars

\* A loop that, interrupted in poll, starts over with an empty response
\* queue.
PollInterruptedClearsQueue ==
    /\ pc = "poll"
    /\ pc' = "top"
    /\ poll_err' = "EINTR"
    /\ pty_write' = <<>>
    /\ UNCHANGED <<stdin_buf, eot_state, eot_elapsed, poll_fds,
                   poll_result, poll_elapsed, last_written_byte, term, screen>>
    /\ UNCHANGED <<stdin_read, stdin_res, written, eot_count, pty_failed>>
    /\ UNCHANGED <<envVars, ringVars, exit_elapsed>>
    /\ UNCHANGED restVars

\* Lines 197-199: poll fails with EINTR; continue.
PollInterrupted ==
    /\ pc = "poll"
    /\ pc' = "top"
    /\ poll_err' = "EINTR"
    /\ UNCHANGED <<stdin_buf, pty_write, eot_state, eot_elapsed, poll_fds,
                   poll_result, poll_elapsed, last_written_byte, term, screen>>
    /\ UNCHANGED <<stdin_read, stdin_res, written, eot_count, pty_failed>>
    /\ UNCHANGED <<envVars, ringVars, exit_elapsed>>
    /\ UNCHANGED restVars

\* Lines 200-202: poll fails with another error; bail.
PollFails ==
    /\ pc = "poll"
    /\ pc' = "failed"
    /\ screen' = <<"error">>
    /\ poll_err' = "other"
    /\ UNCHANGED <<stdin_buf, pty_write, eot_state, eot_elapsed, poll_fds,
                   poll_result, poll_elapsed, last_written_byte, term>>
    /\ UNCHANGED <<stdin_read, stdin_res, written, eot_count, pty_failed>>
    /\ UNCHANGED <<envVars, ringVars, exit_elapsed>>
    /\ UNCHANGED restVars

\* Time passes while the proxy is blocked with nothing ready: in poll, up
\* to its timeout, and in a read of parent stdin, which has none.  (No
\* clock of the loop runs there: eot_state is None.)
Tick ==
    /\ \/ /\ pc = "poll"
          /\ ~AnyReady(PollReady)
          /\ ~PollTimedOut(poll_elapsed)
          /\ poll_elapsed' = poll_elapsed + 1
       \/ /\ pc = "stdin_blocked"
          /\ ~StdinReady
          /\ poll_elapsed' = poll_elapsed
    /\ eot_elapsed' = IF eot_state = "SentEot" THEN Tock(eot_elapsed)
                      ELSE eot_elapsed
    /\ exit_elapsed' = IF child_event THEN Min(exit_elapsed + 1, Timeout + 1)
                       ELSE exit_elapsed
    /\ UNCHANGED <<pc, stdin_buf, pty_write, eot_state, poll_fds,
                   poll_result, last_written_byte, term, screen>>
    /\ UNCHANGED <<envVars, histVars, ringVars>>
    /\ UNCHANGED restVars

\* What the handlers of lines 206-238 work on, as one record.
Handling ==
    [ring |-> stdin_buf, queue |-> pty_write, eot |-> eot_state,
     pending |-> stdin_pending, sread |-> stdin_read, sres |-> stdin_res,
     out |-> pty_out, inn |-> pty_in, trm |-> term, wr |-> written,
     last |-> last_written_byte, failed |-> pty_failed, blocked |-> FALSE]

\* How parent stdin answers one read call offered the slice of loop state st.
StdinAnswer(st) ==
    IF stdin_state = "error" THEN Failed
    ELSE OkN(Min(RangeLen(unfilled(st.rb)), Len(st.data)))

\* A read call on parent stdin blocks when nothing is waiting and the stream
\* is still open: the descriptor is a blocking one.
StdinBlocks(st) ==
    /\ st.ctl = "run"
    /\ RangeLen(unfilled(st.rb)) > 0
    /\ st.data = <<>>
    /\ stdin_state = "open"

\* if matches!(stdin_buf.read(parent_stdin), EOF(_) | Err { .. })
EotAfterRead(state, res) ==
    IF res \in {"EOF", "Err"} THEN "SendEot" ELSE state

\* The end of stdin_buf.read(parent_stdin), its loop having reached st.
StdinReadDone(h, st) ==
    LET r == Result(st, h.ring.write_idx, st.rb.write_idx)
    IN  [h EXCEPT !.ring = r.rb, !.pending = st.data,
                  !.sread = h.sread \o r.moved, !.sres = r.res,
                  !.eot = EotAfterRead(h.eot, r.res)]

\* Lines 206-214: read parent stdin into the ring.  When the first call of
\* Ringbuffer::read filled its slice, the second call blocks unless parent
\* stdin has more to give.
HandleStdin(h, ready) ==
    IF ~ready THEN h
    ELSE LET s0 == LoopStart(h.ring, h.pending)
             s1 == ReadPass(s0, StdinAnswer(s0))
         IN  IF StdinBlocks(s1)
             THEN [h EXCEPT !.ring = s1.rb, !.pending = s1.data,
                            !.sread = h.sread \o s1.moved, !.blocked = TRUE]
             ELSE StdinReadDone(h, ReadPass(s1, StdinAnswer(s1)))

\* The blocked second call returns.
ResumeStdin(h) ==
    LET s1 == LoopStart(h.ring, h.pending)
    IN  StdinReadDone(h, ReadPass(s1, StdinAnswer(s1)))

\* Lines 216-228: one read of the PTY into stdout_buf, each byte fed to the
\* emulator; an error (the hangup, once nothing is left to read) is ignored.
HandlePtyRead(h, ready) ==
    IF ready /\ h.out # <<>>
    THEN LET n == Min(Len(h.out), StdoutBufLen)
         IN  [h EXCEPT !.trm = h.trm \o Take(h.out, n),
                       !.queue = ProcessAll(h.queue, Take(h.out, n)),
                       !.out = Drop(h.out, n)]
    ELSE IF ready
    THEN [h EXCEPT !.failed = TRUE]
    ELSE h

\* How the PTY answers one write call offered the slice of loop state st,
\* having already taken st.moved in this call of Ringbuffer::write.
PtyAnswer(st) ==
    IF hangup THEN Failed
    ELSE IF Len(pty_in) + Len(st.moved) >= PtyCap THEN Ignored
    ELSE OkN(Min(RangeLen(filled(st.rb)),
                 PtyCap - Len(pty_in) - Len(st.moved)))

\* Lines 230-238: drain the ring into the PTY and remember the last byte.
HandlePtyWrite(h, ready) ==
    IF ~ready THEN h
    ELSE LET s0 == LoopStart(h.ring, <<>>)
             s1 == WritePass(s0, PtyAnswer(s0))
             r  == write(h.ring, PtyAnswer(s0), PtyAnswer(s1))
             it == BytesSeq(r.bytes)
         IN  [h EXCEPT !.ring = r.rb,
                       !.inn = h.inn \o r.moved,
                       !.wr = h.wr \o r.moved,
                       !.last = IF it # <<>> THEN ByteOf(Last(it))
                                ELSE h.last,
                       !.failed = (h.failed \/ r.res = "Err")]

\* The handlers' record becomes the next state.
Commit(h) ==
    /\ stdin_buf' = h.ring
    /\ pty_write' = h.queue
    /\ eot_state' = h.eot
    /\ stdin_pending' = h.pending
    /\ stdin_read' = h.sread
    /\ stdin_res' = h.sres
    /\ pty_out' = h.out
    /\ pty_in' = h.inn
    /\ term' = h.trm
    /\ written' = h.wr
    /\ last_written_byte' = h.last
    /\ pty_failed' = h.failed

\* Lines 186-238: poll returns what is ready, at once if anything is, else
\* when the timeout has run out, and the three handlers run in turn.
PollReturn ==
    /\ pc = "poll"
    /\ AnyReady(PollReady) \/ PollTimedOut(poll_elapsed)
    /\ LET r == PollReady
           a == HandleStdin(Handling, r[1])
       IN  IF a.blocked
           THEN /\ Commit(a)
                /\ poll_result' = r
                /\ pc' = "stdin_blocked"
           ELSE /\ Commit(HandlePtyWrite(HandlePtyRead(a, r[2]), r[3]))
                /\ poll_result' = <<FALSE, FALSE, FALSE>>
                /\ pc' = "top"
    /\ UNCHANGED <<eot_elapsed, poll_fds, poll_elapsed, screen>>
    /\ UNCHANGED <<stdin_state, child_state, hangup, child_event>>
    /\ UNCHANGED <<eot_count, poll_err, ringVars, exit_elapsed>>
    /\ UNCHANGED restVars

\* The blocked read of parent stdin returns, and the other handlers run.
ReadParentStdinResumes ==
    /\ pc = "stdin_blocked"
    /\ StdinReady
    /\ Commit(HandlePtyWrite(HandlePtyRead(ResumeStdin(Handling),
                                           poll_result[2]),
                             poll_result[3]))
    /\ poll_result' = <<FALSE, FALSE, FALSE>>
    /\ pc' = "top"
    /\ UNCHANGED <<eot_elapsed, poll_fds, poll_elapsed, screen>>
    /\ UNCHANGED <<stdin_state, child_state, hangup, child_event>>
    /\ UNCHANGED <<eot_count, poll_err, ringVars, exit_elapsed>>
    /\ UNCHANGED restVars

(***************************************************************************)
(* The world around the proxy.                                             *)
(***************************************************************************)
\* Every byte the child wrote: those fed to the emulator, then those the
\* proxy has not read yet.
ChildWrote == term \o pty_out

\* The proxy sees parent stdin and the PTY only where it blocks (in poll, in
\* a read of parent stdin) and in the handlers that follow at once, so what
\* happens on them elsewhere is taken to happen at the next such point.
Blocked == pc \in {"poll", "stdin_blocked"}

Running == pc \notin {"done", "failed"}

Traffic == Len(stdin_read) + Len(stdin_pending) + Len(ChildWrote)

StdinArrives ==
    /\ Blocked
    /\ stdin_state = "open"
    /\ Traffic < MaxBytes
    /\ \E b \in StdinBytes : stdin_pending' = Append(stdin_pending, b)
    /\ UNCHANGED <<stdin_state, pty_out, pty_in, child_state, hangup,
                   child_event>>
    /\ UNCHANGED <<proxyVars, histVars, ringVars, exit_elapsed>>
    /\ UNCHANGED restVars

StdinEnds ==
    /\ Blocked
    /\ stdin_state = "open"
    /\ stdin_state' \in {"closed", "error"}
    /\ UNCHANGED <<stdin_pending, pty_out, pty_in, child_state, hangup,
                   child_event>>
    /\ UNCHANGED <<proxyVars, histVars, ringVars, exit_elapsed>>
    /\ UNCHANGED restVars

ChildWrites ==
    /\ Running
    /\ child_state = "running"
    /\ Traffic < MaxBytes
    /\ \E b \in ChildBytes : pty_out' = Append(pty_out, b)
    /\ UNCHANGED <<stdin_pending, stdin_state, pty_in, child_state, hangup,
                   child_event>>
    /\ UNCHANGED <<proxyVars, histVars, ringVars, exit_elapsed>>
    /\ UNCHANGED restVars

ChildReads ==
    /\ Blocked
    /\ child_state = "running"
    /\ pty_in # <<>>
    /\ pty_in' = Tail(pty_in)
    /\ UNCHANGED <<stdin_pending, stdin_state, pty_out, child_state, hangup,
                   child_event>>
    /\ UNCHANGED <<proxyVars, histVars, ringVars, exit_elapsed>>
    /\ UNCHANGED restVars

\* The child exits.  The PTY hangs up unless a descendant of the child still
\* holds the slave side open.
ChildExits ==
    /\ Running
    /\ child_state = "running"
    /\ child_state' = "exited"
    /\ hangup' \in BOOLEAN
    /\ UNCHANGED <<stdin_pending, stdin_state, pty_out, pty_in, child_event>>
    /\ UNCHANGED <<proxyVars, histVars, ringVars, exit_elapsed>>
    /\ UNCHANGED restVars

\* SIGCHLD has been delivered: next_child_event() now returns Exited.
ChildEventArrives ==
    /\ Running
    /\ child_state = "exited"
    /\ ~child_event
    /\ child_event' = TRUE
    /\ UNCHANGED <<stdin_pending, stdin_state, pty_out, pty_in, child_state,
                   hangup>>
    /\ UNCHANGED <<proxyVars, histVars, ringVars, exit_elapsed>>
    /\ UNCHANGED restVars

NINext ==
    \/ LoopExit
    \/ LoopTop
    \/ PollReturn
    \/ PollInterrupted
    \/ PollFails
    \/ Tick
    \/ ReadParentStdinResumes
    \/ StdinArrives
    \/ StdinEnds
    \/ ChildWrites
    \/ ChildReads
    \/ ChildExits
    \/ ChildEventArrives

(***************************************************************************)
(* The ring on its own: any sequence of read and write calls, the sources  *)
(* and sinks answering in every way they may.  The k-th byte supplied is   *)
(* k (mod 256), so that every byte in flight is told apart.                *)
(***************************************************************************)
SourceByte(k) == k % 256

SourceData(from, n) == [i \in 1..n |-> SourceByte(from + i)]

Held == Len(supplied) - Len(drained)

RingRead ==
    \E o \in ReadAnswers(rb, MaxSupplied - Len(supplied)) :
        LET have == MaxSupplied - Len(supplied)
            r    == read(rb, SourceData(Len(supplied), have), o[1], o[2])
        IN  /\ rb' = r.rb
            /\ supplied' = supplied \o r.moved
            /\ overflowed' = (overflowed \/ Held + Len(r.moved) > C)
            /\ lastOp' = "read"
            /\ lastRes' = r
            /\ UNCHANGED <<drained, niVars, restVars>>

RingWrite ==
    \E o \in WriteAnswers(rb) :
        LET r == write(rb, o[1], o[2])
        IN  /\ rb' = r.rb
            /\ drained' = drained \o r.moved
            /\ lastOp' = "write"
            /\ lastRes' = r
            /\ UNCHANGED <<supplied, overflowed, niVars, restVars>>

RingNext == RingRead \/ RingWrite

RingSpec == Init /\ [][RingNext]_vars

(***************************************************************************)
(* non_interactive with its surroundings; the ring-only variables rest.    *)
(***************************************************************************)
NISpec == Init /\ [][NINext]_vars

(***************************************************************************)
(* The response queue on its own: the emulator emits fragments through the *)
(* closure of Term::new at any time, and the loop pops the front whenever   *)
(* it finds the stdin ring empty.  The k-th fragment emitted is the one    *)
(* byte k, so that every fragment is told apart.                           *)
(***************************************************************************)
Fragment(k) == <<FromResponse(SourceByte(k))>>

QueueEmit ==
    /\ Len(emitted) < MaxEmitted
    /\ LET text == Fragment(Len(emitted) + 1)
       IN  /\ outbound' = PtyWriterWrite(outbound, text)
           /\ emitted' = Append(emitted, text)
    /\ UNCHANGED <<popped, ringVars, niVars, iaVars, cbVars, libVars>>

QueuePop ==
    /\ outbound # <<>>
    /\ popped' = Append(popped, Head(outbound))
    /\ outbound' = PopFront(outbound)
    /\ UNCHANGED <<emitted, ringVars, niVars, iaVars, cbVars, libVars>>

QueueNext == QueueEmit \/ QueuePop

QueueSpec == Init /\ [][QueueNext]_vars

(***************************************************************************)
(* interactive (src/src/main.rs), called by run in place of                *)
(* non_interactive when cli.interactive is set.  The k-th byte the child   *)
(* writes is the byte k, so that every byte in flight is told apart.       *)
(***************************************************************************)
\* run calls one of the two loops: non_interactive has not started.
NIFresh ==
    /\ poll_fds = <<FALSE, FALSE, FALSE>>
    /\ Traffic = 0
    /\ child_state = "running"

\* with_raw: the attributes after make_raw and tcsetattr, when tcgetattr
\* gave the original ones.
WithRawSet(orig, now) == IF orig = "Ok" THEN "raw" ELSE now

\* with_raw: the attributes after the closure has returned.
WithRawReset(orig, now) == IF orig = "Ok" THEN "orig" ELSE now

\* A terminal that is resized and never told so.
TermResizeSkipped(size, lines_columns) == size

\* Term::resize: the emulator takes the new lines and columns.
TermResize(size, lines_columns) == lines_columns

\* pty.on_resize(WindowSize { num_lines, num_cols, .. })
OnResize(size, lines_columns) == lines_columns

IARunning == ia_pc \in {"top", "poll", "stdin_blocked"}

IABlocked == ia_pc \in {"poll", "stdin_blocked"}

IAChildWrote == ia_pty_read \o ia_pty_out

IATraffic == Len(ia_stdin_read) + Len(ia_stdin_pending) + Len(IAChildWrote)

\* Lines 423-426, 470-475, 260-269: run reads the size the terminal has by
\* then (the defaults when that fails), creates the PTY and the emulator
\* with it, and interactive enters with_raw.  Parent stdout is a terminal
\* or is none: tcgetwinsize and tcgetattr succeed or fail together.
IAEnter ==
    /\ ia_pc = "off"
    /\ NIFresh
    /\ tty_size' \in TtySizes
    /\ \E got \in {"Ok", "Err"} :
          LET size == IF got = "Ok" THEN tty_size'
                      ELSE <<DEFAULT_NUM_LINES, DEFAULT_NUM_COLUMNS>>
          IN  /\ orig_attrs' = got
              /\ attrs' = WithRawSet(got, attrs)
              /\ pty_size' = size
              /\ term_size' = size
    /\ ia_pc' = "top"
    /\ UNCHANGED <<ia_stdin_buf, ia_stdout_buf, ia_term, ia_poll_fds,
                   ia_poll_result, ia_result>>
    /\ UNCHANGED <<window_size_changed, ia_stdin_pending, ia_pty_out,
                   ia_pty_in, ia_stdout, stdout_state, ia_child, ia_hangup>>
    /\ UNCHANGED <<iaHistVars, ringVars, niVars, queueVars, cbVars, libVars>>

\* Lines 275-278, 348-349: the child has exited; leave the loop, return the
\* screen, and with_raw resets the attributes.
IAExit ==
    /\ ia_pc = "top"
    /\ ia_child = "event"
    /\ ia_pc' = "done"
    /\ ia_result' = <<"screen", ia_term, term_size>>
    /\ attrs' = WithRawReset(orig_attrs, attrs)
    /\ UNCHANGED <<ia_stdin_buf, ia_stdout_buf, ia_term, term_size, pty_size,
                   orig_attrs, ia_poll_fds, ia_poll_result>>
    /\ UNCHANGED <<iaEnvVars, iaHistVars, ringVars, niVars, queueVars, cbVars, libVars>>

\* The four slots of lines 296-309.
IAPollFds(sin, sout) ==
    <<~is_full(sin), ~is_full(sout), ~is_empty(sin), ~is_empty(sout)>>

\* Lines 280-309: from the top of an iteration to the call of poll.  The
\* flag is swapped to false; if it was set, the size of the terminal is read
\* (an error leaves the closure) and given to the PTY and to the emulator.
IATop ==
    /\ ia_pc = "top"
    /\ ia_child # "event"
    /\ window_size_changed' = FALSE
    /\ \E winsize \in {"Ok", "Err"} :
          IF window_size_changed /\ winsize = "Err"
          THEN /\ ia_pc' = "failed"
               /\ ia_result' = <<"error">>
               /\ attrs' = WithRawReset(orig_attrs, attrs)
               /\ UNCHANGED <<pty_size, term_size, ia_poll_fds, ia_resized>>
          ELSE /\ ia_pc' = "poll"
               /\ pty_size' = IF window_size_changed
                              THEN OnResize(pty_size, tty_size)
                              ELSE pty_size
               /\ term_size' = IF window_size_changed
                               THEN TermResize(term_size, tty_size)
                               ELSE term_size
               /\ ia_resized' = (ia_resized \/ window_size_changed)
               /\ ia_poll_fds' = IAPollFds(ia_stdin_buf, ia_stdout_buf)
               /\ UNCHANGED <<ia_result, attrs>>
    /\ ia_poll_err' = "none"
    /\ UNCHANGED <<ia_stdin_buf, ia_stdout_buf, ia_term, orig_attrs,
                   ia_poll_result>>
    /\ UNCHANGED <<tty_size, ia_stdin_pending, ia_pty_out, ia_pty_in,
                   ia_stdout, stdout_state, ia_child, ia_hangup>>
    /\ UNCHANGED <<ia_pty_read, ia_stdin_read, ia_pty_written>>
    /\ UNCHANGED <<ringVars, niVars, queueVars, cbVars, libVars>>

\* Lines 311-312: poll fails with EINTR; continue.
IAPollInterrupted ==
    /\ ia_pc = "poll"
    /\ ia_pc' = "top"
    /\ ia_poll_err' = "EINTR"
    /\ UNCHANGED <<ia_stdin_buf, ia_stdout_buf, ia_term, term_size, pty_size,
                   attrs, orig_attrs, ia_poll_fds, ia_poll_result, ia_result>>
    /\ UNCHANGED <<ia_pty_read, ia_stdin_read, ia_pty_written, ia_resized>>
    /\ UNCHANGED <<iaEnvVars, ringVars, niVars, queueVars, cbVars, libVars>>

\* Lines 313-315: poll fails with another error; bail, and with_raw resets
\* the attributes.
IAPollFails ==
    /\ ia_pc = "poll"
    /\ ia_pc' = "failed"
    /\ ia_result' = <<"error">>
    /\ ia_poll_err' = "other"
    /\ attrs' = WithRawReset(orig_attrs, attrs)
    /\ UNCHANGED <<ia_stdin_buf, ia_stdout_buf, ia_term, term_size, pty_size,
                   orig_attrs, ia_poll_fds, ia_poll_result>>
    /\ UNCHANGED <<ia_pty_read, ia_stdin_read, ia_pty_written, ia_resized>>
    /\ UNCHANGED <<iaEnvVars, ringVars, niVars, queueVars, cbVars, libVars>>

\* What the four descriptors would report to poll.
IAPollReady ==
    <<ia_poll_fds[1] /\ ia_stdin_pending # <<>>,
      ia_poll_fds[2] /\ (ia_pty_out # <<>> \/ ia_hangup),
      ia_poll_fds[3] /\ (Len(ia_pty_in) < PtyCap \/ ia_hangup),
      ia_poll_fds[4]>>

IAAnyReady(r) == r[1] \/ r[2] \/ r[3] \/ r[4]

\* What the handlers of lines 319-345 work on, as one record.
IAHandling ==
    [sin |-> ia_stdin_buf, sout |-> ia_stdout_buf,
     pending |-> ia_stdin_pending, sread |-> ia_stdin_read,
     out |-> ia_pty_out, pread |-> ia_pty_read, trm |-> ia_term,
     inn |-> ia_pty_in, pwr |-> ia_pty_written, fwd |-> ia_stdout,
     blocked |-> FALSE, panicked |-> FALSE]

\* How parent stdin, which stays open, answers one read call.
IAStdinAnswer(st) == OkN(Min(RangeLen(unfilled(st.rb)), Len(st.data)))

\* A read call on parent stdin blocks when nothing is waiting.
IAStdinBlocks(st) ==
    /\ st.ctl = "run"
    /\ RangeLen(unfilled(st.rb)) > 0
    /\ st.data = <<>>

\* The end of stdin_buf.read(parent_stdin), its loop having reached st.
IAStdinReadDone(h, st) ==
    [h EXCEPT !.sin = st.rb, !.pending = st.data,
              !.sread = h.sread \o st.moved]

\* Lines 319-321: let _ = stdin_buf.read(parent_stdin).
IAHandleStdin(h, ready) ==
    IF ~ready THEN h
    ELSE LET s0 == LoopStart(h.sin, h.pending)
             s1 == ReadPass(s0, IAStdinAnswer(s0))
         IN  IF IAStdinBlocks(s1)
             THEN [IAStdinReadDone(h, s1) EXCEPT !.blocked = TRUE]
             ELSE IAStdinReadDone(h, ReadPass(s1, IAStdinAnswer(s1)))

\* The blocked second call returns.
IAResumeStdin(h) ==
    LET s1 == LoopStart(h.sin, h.pending)
    IN  IAStdinReadDone(h, ReadPass(s1, IAStdinAnswer(s1)))

\* How the PTY, which does not block, answers one read call: what it has, up
\* to the slice; nothing to read is an error after the hangup and
\* WouldBlock before it.
IAPtyReadAnswer(st) ==
    IF st.data # <<>>
    THEN OkN(Min(RangeLen(unfilled(st.rb)), Len(st.data)))
    ELSE IF ia_hangup THEN Failed ELSE Ignored

\* Lines 323-329: read the PTY into stdout_buf and feed the bytes of the
\* result to the emulator.
IAHandlePtyRead(h, ready) ==
    IF ~ready THEN h
    ELSE LET s0 == LoopStart(h.sout, h.out)
             s1 == ReadPass(s0, IAPtyReadAnswer(s0))
             res == read(h.sout, h.out, IAPtyReadAnswer(s0),
                         IAPtyReadAnswer(s1))
         IN  [h EXCEPT !.sout = res.rb,
                       !.out = Drop(h.out, Len(res.moved)),
                       !.pread = h.pread \o res.moved,
                       !.trm = h.trm \o BytesSeq(res.bytes)]

\* How the PTY answers one write call, having already taken st.moved.
IAPtyWriteAnswer(h, st) ==
    IF ia_hangup THEN Failed
    ELSE IF Len(h.inn) + Len(st.moved) >= PtyCap THEN Ignored
    ELSE OkN(Min(RangeLen(filled(st.rb)),
                 PtyCap - Len(h.inn) - Len(st.moved)))

\* Lines 331-334: let _ = stdin_buf.write(pty_stdin).
IAHandlePtyWrite(h, ready) ==
    IF ~ready THEN h
    ELSE LET s0 == LoopStart(h.sin, <<>>)
             s1 == WritePass(s0, IAPtyWriteAnswer(h, s0))
             res == write(h.sin, IAPtyWriteAnswer(h, s0),
                          IAPtyWriteAnswer(h, s1))
         IN  [h EXCEPT !.sin = res.rb,
                       !.inn = h.inn \o res.moved,
                       !.pwr = h.pwr \o res.moved]

\* How parent stdout answers one write call: it takes the slice whole, or,
\* once broken, its write fails.
IAStdoutAnswer(st, how) ==
    IF how = "error" THEN Failed ELSE OkN(RangeLen(filled(st.rb)))

\* Lines 336-345: drain stdout_buf into parent stdout; if the result holds
\* bytes, flush and unwrap.  how is "ok", or, parent stdout being broken,
\* "error" (the write fails) or "flush" (the write is buffered and the flush
\* fails).
IAHandleStdoutWrite(h, ready, how) ==
    IF ~ready THEN h
    ELSE LET s0 == LoopStart(h.sout, <<>>)
             s1 == WritePass(s0, IAStdoutAnswer(s0, how))
             res == write(h.sout, IAStdoutAnswer(s0, how),
                          IAStdoutAnswer(s1, how))
             flushed == res.res \in {"Ok", "EOF"} /\ BytesLen(res.bytes) > 0
         IN  [h EXCEPT !.sout = res.rb,
                       !.fwd = IF how = "ok" THEN h.fwd \o res.moved
                               ELSE h.fwd,
                       !.panicked = (flushed /\ how = "flush")]

\* The ways parent stdout may behave in one handler.
StdoutHows == IF stdout_state = "ok" THEN {"ok"} ELSE {"error", "flush"}

\* The handlers after the one of parent stdin.
IAHandleRest(h, r, how) ==
    IAHandleStdoutWrite(IAHandlePtyWrite(IAHandlePtyRead(h, r[2]), r[3]),
                        r[4], how)

\* The handlers' record becomes the next state; a panic of unwrap unwinds
\* through with_raw.
IACommit(h) ==
    /\ ia_stdin_buf' = h.sin
    /\ ia_stdout_buf' = h.sout
    /\ ia_stdin_pending' = h.pending
    /\ ia_stdin_read' = h.sread
    /\ ia_pty_out' = h.out
    /\ ia_pty_read' = h.pread
    /\ ia_term' = h.trm
    /\ ia_pty_in' = h.inn
    /\ ia_pty_written' = h.pwr
    /\ ia_stdout' = h.fwd
    /\ ia_pc' = IF h.blocked THEN "stdin_blocked"
                ELSE IF h.panicked THEN "panicked" ELSE "top"
    /\ ia_result' = IF h.panicked THEN <<"panic">> ELSE ia_result

\* Lines 296-345: poll, which has no timeout, returns what is ready and the
\* four handlers run in turn.
IAPollReturn ==
    /\ ia_pc = "poll"
    /\ IAAnyReady(IAPollReady)
    /\ LET r == IAPollReady
           a == IAHandleStdin(IAHandling, r[1])
       IN  /\ ia_poll_result' = r
           /\ IF a.blocked THEN IACommit(a)
              ELSE \E how \in StdoutHows : IACommit(IAHandleRest(a, r, how))
    /\ UNCHANGED <<term_size, pty_size, attrs, orig_attrs, ia_poll_fds>>
    /\ UNCHANGED <<window_size_changed, tty_size, stdout_state, ia_child,
                   ia_hangup, ia_poll_err, ia_resized>>
    /\ UNCHANGED <<ringVars, niVars, queueVars, cbVars, libVars>>

\* The blocked read of parent stdin returns, and the other handlers run.
IAReadParentStdinResumes ==
    /\ ia_pc = "stdin_blocked"
    /\ ia_stdin_pending # <<>>
    /\ \E how \in StdoutHows :
          IACommit(IAHandleRest(IAResumeStdin(IAHandling), ia_poll_result,
                                how))
    /\ UNCHANGED <<term_size, pty_size, attrs, orig_attrs, ia_poll_fds,
                   ia_poll_result>>
    /\ UNCHANGED <<window_size_changed, tty_size, stdout_state, ia_child,
                   ia_hangup, ia_poll_err, ia_resized>>
    /\ UNCHANGED <<ringVars, niVars, queueVars, cbVars, libVars>>

\* The parent's terminal is resized, and SIGWINCH sets the flag.
TtyResizes ==
    /\ IARunning
    /\ tty_size' \in TtySizes \ {tty_size}
    /\ window_size_changed' = TRUE
    /\ UNCHANGED <<ia_stdin_pending, ia_pty_out, ia_pty_in, ia_stdout,
                   stdout_state, ia_child, ia_hangup>>
    /\ UNCHANGED <<iaProxyVars, iaHistVars, ringVars, niVars, queueVars, cbVars, libVars>>

IAStdinArrives ==
    /\ IABlocked
    /\ IATraffic < IAMaxBytes
    /\ ia_stdin_pending' = Append(ia_stdin_pending, Letter)
    /\ UNCHANGED <<window_size_changed, tty_size, ia_pty_out, ia_pty_in,
                   ia_stdout, stdout_state, ia_child, ia_hangup>>
    /\ UNCHANGED <<iaProxyVars, iaHistVars, ringVars, niVars, queueVars, cbVars, libVars>>

IAChildWrites ==
    /\ IABlocked
    /\ ia_child = "running"
    /\ IATraffic < IAMaxBytes
    /\ ia_pty_out' = Append(ia_pty_out, SourceByte(Len(IAChildWrote) + 1))
    /\ UNCHANGED <<window_size_changed, tty_size, ia_stdin_pending,
                   ia_pty_in, ia_stdout, stdout_state, ia_child, ia_hangup>>
    /\ UNCHANGED <<iaProxyVars, iaHistVars, ringVars, niVars, queueVars, cbVars, libVars>>

IAChildReads ==
    /\ IABlocked
    /\ ia_child = "running"
    /\ ia_pty_in # <<>>
    /\ ia_pty_in' = Tail(ia_pty_in)
    /\ UNCHANGED <<window_size_changed, tty_size, ia_stdin_pending,
                   ia_pty_out, ia_stdout, stdout_state, ia_child, ia_hangup>>
    /\ UNCHANGED <<iaProxyVars, iaHistVars, ringVars, niVars, queueVars, cbVars, libVars>>

\* The child exits; the PTY hangs up unless a descendant still holds the
\* slave side open.
IAChildExits ==
    /\ IABlocked
    /\ ia_child = "running"
    /\ ia_child' = "exited"
    /\ ia_hangup' \in BOOLEAN
    /\ UNCHANGED <<window_size_changed, tty_size, ia_stdin_pending,
                   ia_pty_out, ia_pty_in, ia_stdout, stdout_state>>
    /\ UNCHANGED <<iaProxyVars, iaHistVars, ringVars, niVars, queueVars, cbVars, libVars>>

\* SIGCHLD has been delivered: next_child_event() now returns Exited.
IAChildEventArrives ==
    /\ IARunning
    /\ ia_child = "exited"
    /\ ia_child' = "event"
    /\ UNCHANGED <<window_size_changed, tty_size, ia_stdin_pending,
                   ia_pty_out, ia_pty_in, ia_stdout, stdout_state, ia_hangup>>
    /\ UNCHANGED <<iaProxyVars, iaHistVars, ringVars, niVars, queueVars, cbVars, libVars>>

\* Parent stdout stops taking output (the terminal is gone).
StdoutBreaks ==
    /\ IABlocked
    /\ stdout_state = "ok"
    /\ stdout_state' = "broken"
    /\ UNCHANGED <<window_size_changed, tty_size, ia_stdin_pending,
                   ia_pty_out, ia_pty_in, ia_stdout, ia_child, ia_hangup>>
    /\ UNCHANGED <<iaProxyVars, iaHistVars, ringVars, niVars, queueVars, cbVars, libVars>>

IANext ==
    \/ IAEnter
    \/ IAExit
    \/ IATop
    \/ IAPollReturn
    \/ IAPollInterrupted
    \/ IAPollFails
    \/ IAReadParentStdinResumes
    \/ TtyResizes
    \/ IAStdinArrives
    \/ IAChildWrites
    \/ IAChildReads
    \/ IAChildExits
    \/ IAChildEventArrives
    \/ StdoutBreaks

IASpec == Init /\ [][IANext]_vars

(***************************************************************************)
(* The loop of interactive and the SIGWINCH handler, statement by          *)
(* statement (src/src/main.rs:262-267 and 274-317): the handler, which     *)
(* signal_hook::flag::register installs, runs between any two statements   *)
(* of the loop and stores true in the flag; a signal delivered while the   *)
(* loop is blocked in poll makes poll fail with EINTR, one delivered       *)
(* before poll was entered does not.  The handlers of lines 319-346 do     *)
(* not touch the flag and are taken with the return of poll.               *)
(***************************************************************************)
\* Lines 275-278: the child-exit event ends the loop.
WinchTop ==
    /\ wsc_pc = "top"
    /\ \E exited \in BOOLEAN :
          wsc_pc' = IF LoopBreaks(exited) THEN "done" ELSE "load"
    /\ UNCHANGED <<wsc_flag, wsc_tty, wsc_winsize, wsc_pty, wsc_term,
                   wsc_signals>>
    /\ UNCHANGED <<ringVars, niVars, queueVars, iaVars, cbVars, tmVars, mainVars, svgVars, colVars>>

\* Line 280: window_size_changed.load(Relaxed)
WinchLoad ==
    /\ wsc_pc = "load"
    /\ wsc_pc' = IF wsc_flag THEN "store" ELSE "enter_poll"
    /\ UNCHANGED <<wsc_flag, wsc_tty, wsc_winsize, wsc_pty, wsc_term,
                   wsc_signals>>
    /\ UNCHANGED <<ringVars, niVars, queueVars, iaVars, cbVars, tmVars, mainVars, svgVars, colVars>>

\* Line 281: window_size_changed.store(false, Relaxed)
WinchStore ==
    /\ wsc_pc = "store"
    /\ wsc_flag' = FALSE
    /\ wsc_pc' = "getsize"
    /\ UNCHANGED <<wsc_tty, wsc_winsize, wsc_pty, wsc_term, wsc_signals>>
    /\ UNCHANGED <<ringVars, niVars, queueVars, iaVars, cbVars, tmVars, mainVars, svgVars, colVars>>

\* Line 283: termios::tcgetwinsize(std::io::stdout())?
WinchGetSize ==
    /\ wsc_pc = "getsize"
    /\ \E winsize \in {"Ok", "Err"} :
          IF winsize = "Err"
          THEN wsc_pc' = "failed" /\ UNCHANGED wsc_winsize
          ELSE wsc_pc' = "resize" /\ wsc_winsize' = wsc_tty
    /\ UNCHANGED <<wsc_flag, wsc_tty, wsc_pty, wsc_term, wsc_signals>>
    /\ UNCHANGED <<ringVars, niVars, queueVars, iaVars, cbVars, tmVars, mainVars, svgVars, colVars>>

\* Lines 287-293: pty.on_resize and term.resize with what was read.
WinchResize ==
    /\ wsc_pc = "resize"
    /\ wsc_pty' = OnResize(wsc_pty, wsc_winsize)
    /\ wsc_term' = TermResize(wsc_term, wsc_winsize)
    /\ wsc_pc' = "enter_poll"
    /\ UNCHANGED <<wsc_flag, wsc_tty, wsc_winsize, wsc_signals>>
    /\ UNCHANGED <<ringVars, niVars, queueVars, iaVars, cbVars, tmVars, mainVars, svgVars, colVars>>

\* Lines 296-308: poll is called, without a timeout, and blocks.
WinchPollEnters ==
    /\ wsc_pc = "enter_poll"
    /\ wsc_pc' = "in_poll"
    /\ UNCHANGED <<wsc_flag, wsc_tty, wsc_winsize, wsc_pty, wsc_term,
                   wsc_signals>>
    /\ UNCHANGED <<ringVars, niVars, queueVars, iaVars, cbVars, tmVars, mainVars, svgVars, colVars>>

\* Lines 309 and 319-346: a descriptor is ready, poll returns, the handlers
\* run and the loop is back at its top.
WinchPollReturns ==
    /\ wsc_pc = "in_poll"
    /\ wsc_pc' = "top"
    /\ UNCHANGED <<wsc_flag, wsc_tty, wsc_winsize, wsc_pty, wsc_term,
                   wsc_signals>>
    /\ UNCHANGED <<ringVars, niVars, queueVars, iaVars, cbVars, tmVars, mainVars, svgVars, colVars>>

\* Lines 310-312: poll has failed with EINTR; continue.
WinchPollInterrupted ==
    /\ wsc_pc = "eintr"
    /\ wsc_pc' = "top"
    /\ UNCHANGED <<wsc_flag, wsc_tty, wsc_winsize, wsc_pty, wsc_term,
                   wsc_signals>>
    /\ UNCHANGED <<ringVars, niVars, queueVars, iaVars, cbVars, tmVars, mainVars, svgVars, colVars>>

\* Lines 262-267: the parent's terminal is resized and the handler of
\* SIGWINCH stores true in the flag; that is all it does.  A poll that is
\* blocked fails with EINTR.
Sigwinch ==
    /\ wsc_pc \notin {"done", "failed"}
    /\ wsc_signals < MaxSigwinch
    /\ wsc_signals' = wsc_signals + 1
    /\ wsc_tty' \in TtySizes \ {wsc_tty}
    /\ wsc_flag' = TRUE
    /\ wsc_pc' = IF wsc_pc = "in_poll" THEN "eintr" ELSE wsc_pc
    /\ UNCHANGED <<wsc_winsize, wsc_pty, wsc_term>>
    /\ UNCHANGED <<ringVars, niVars, queueVars, iaVars, cbVars, tmVars, mainVars, svgVars, colVars>>

WinchNext ==
    \/ WinchTop
    \/ WinchLoad
    \/ WinchStore
    \/ WinchGetSize
    \/ WinchResize
    \/ WinchPollEnters
    \/ WinchPollReturns
    \/ WinchPollInterrupted
    \/ Sigwinch

WinchSpec == Init /\ [][WinchNext]_vars

\* run, which calls interactive or non_interactive (lines 480-484).
ProxyNext == (ia_pc = "off" /\ NINext) \/ IANext

ProxySpec == Init /\ [][ProxyNext]_vars

(***************************************************************************)
(* Term::process_with_callback (src/termsnap-lib/src/lib.rs) and the       *)
(* HandlerWrapper it parses into (src/termsnap-lib/src/ansi.rs), driven by *)
(* any sequence of handler actions.  The emulator behind the wrapper is    *)
(* alacritty_terminal; of it the model keeps a grid of two cells (the one  *)
(* above the cursor, the one at and below it), the inactive grid, one cell *)
(* of scrollback, and which of the two screens is the active one.          *)
(***************************************************************************)
\* The sizes a Term is created with and resized to: 1..MaxTermLines by
\* 1..MaxTermColumns.
MaxTermLines == 2

MaxTermColumns == 4

\* How many times a Term is resized and how many snapshots are taken of it.
MaxTermResizes == 1

MaxScreens == 2

\* The largest Screen of blanks formatted, the longest line of text
\* formatted, and how many times a Screen is formatted.
MaxSvgLines == 2

MaxSvgColumns == 3

MaxTextColumns == 4

MaxFormats == 2

\* How many handler actions are dispatched.
MaxSteps == 4

Blank == <<" ", " ">>

\* ansi::ClearMode
ClearModes == {"All", "Above", "Below", "Saved"}

\* ansi::PrivateMode: the one the wrapper looks for, and another.
PrivateModes == {"SwapScreenAndSetRestoreCursor", "ShowCursor"}

\* AnsiSignal
ClearScreen == [signal |-> "ClearScreen", enable |-> FALSE]

AlternateScreenBuffer(enable) ==
    [signal |-> "AlternateScreenBuffer", enable |-> enable]

\* Term::current_screen: the cells of the active grid.
current_screen(t) == t.grid

\* alacritty_terminal: print a screenful of X, scrolling some of it off.
TermInput(t) == [t EXCEPT !.grid = <<"X", "X">>,
                          !.history = IF t.alt THEN t.history ELSE "X"]

\* alacritty_terminal: Term::clear_screen
TermClearScreen(t, p) ==
    IF p = "All" THEN [t EXCEPT !.grid = Blank]
    ELSE IF p = "Above" THEN [t EXCEPT !.grid[1] = " "]
    ELSE IF p = "Below" THEN [t EXCEPT !.grid[2] = " "]
    ELSE [t EXCEPT !.history = " "]

\* alacritty_terminal: Term::set_private_mode
TermSetPrivateMode(t, p) ==
    IF p = "SwapScreenAndSetRestoreCursor" /\ ~t.alt
    THEN [t EXCEPT !.grid = Blank, !.inactive = t.grid, !.alt = TRUE]
    ELSE t

\* alacritty_terminal: Term::unset_private_mode
TermUnsetPrivateMode(t, p) ==
    IF p = "SwapScreenAndSetRestoreCursor" /\ t.alt
    THEN [t EXCEPT !.grid = t.inactive, !.inactive = t.grid, !.alt = FALSE]
    ELSE t

\* (self.cb)(&self.term, signal): what the callback is called with.
Call(t, signal) == [signal |-> signal, screen |-> current_screen(t)]

\* What a handler method of the wrapper does: the calls of the callback it
\* makes, in order, and the emulator it leaves.
Handled(calls, t) == [calls |-> calls, term |-> t]

\* A wrapper that clears the screen and then tells the callback.
clear_screen_then_cb(t, p) ==
    Handled(<<Call(TermClearScreen(t, p), ClearScreen)>>,
            TermClearScreen(t, p))

\* ansi.rs:123-127
clear_screen(t, p) ==
    Handled(<<Call(t, ClearScreen)>>, TermClearScreen(t, p))

\* ansi.rs:149-161
set_private_mode(t, p) ==
    Handled(IF p = "SwapScreenAndSetRestoreCursor"
            THEN <<Call(t, AlternateScreenBuffer(TRUE))>> ELSE <<>>,
            TermSetPrivateMode(t, p))

\* ansi.rs:162-174
unset_private_mode(t, p) ==
    Handled(IF p = "SwapScreenAndSetRestoreCursor"
            THEN <<Call(t, AlternateScreenBuffer(FALSE))>> ELSE <<>>,
            TermUnsetPrivateMode(t, p))

\* ansi.rs:27-29, and every method but the three above: the emulator's own
\* and no callback.
input(t) == Handled(<<>>, TermInput(t))

\* ansi.rs:120-122; clearing a line leaves the cells kept here as they are.
clear_line(t) == Handled(<<>>, t)

\* The handler actions the parser may dispatch on a byte.
HandlerActions ==
    {[name |-> "clear_screen", arg |-> p] : p \in ClearModes}
    \cup {[name |-> n, arg |-> p] :
            n \in {"set_private_mode", "unset_private_mode"},
            p \in PrivateModes}
    \cup {[name |-> "input", arg |-> "X"], [name |-> "clear_line", arg |-> "All"]}

\* processor.advance(&mut handler, byte), the byte completing action a.
Dispatch(t, a) ==
    IF a.name = "clear_screen" THEN clear_screen(t, a.arg)
    ELSE IF a.name = "set_private_mode" THEN set_private_mode(t, a.arg)
    ELSE IF a.name = "unset_private_mode" THEN unset_private_mode(t, a.arg)
    ELSE IF a.name = "input" THEN input(t)
    ELSE clear_line(t)

\* lib.rs:638-648: one byte that completes a handler action.
ProcessWithCallback ==
    /\ em_steps < MaxSteps
    /\ \E a \in HandlerActions :
          LET h == Dispatch(em_term, a)
          IN  /\ em_term' = h.term
              /\ cb_calls' = cb_calls \o h.calls
              /\ em_last' = a
    /\ em_steps' = em_steps + 1
    /\ UNCHANGED <<ringVars, niVars, queueVars, iaVars, libVars>>

CbNext == ProcessWithCallback

CbSpec == Init /\ [][CbNext]_vars

(***************************************************************************)
(* Term and Screen (src/termsnap-lib/src/lib.rs) and the colour table      *)
(* (src/termsnap-lib/src/colors.rs).  Text is a sequence of characters; a  *)
(* byte is its code.  The emulator behind Term is alacritty_terminal: of   *)
(* it the model keeps the grid (its own lines and columns, the cells in    *)
(* display order, each a character with a foreground and a background     *)
(* colour), the cursor as an index into the cells, and the foreground in   *)
(* force; of the parser the ground, escape and CSI states with one         *)
(* parameter.                                                              *)
(***************************************************************************)
HexDigits ==
    <<"0", "1", "2", "3", "4", "5", "6", "7", "8", "9", "a", "b", "c", "d",
      "e", "f">>

HexValue(ch) == (CHOOSE i \in 1..16 : HexDigits[i] = ch) - 1

\* "#rrggbb".parse::<Rgb>()
ParseRgb(text) ==
    [r |-> 16 * HexValue(text[2]) + HexValue(text[3]),
     g |-> 16 * HexValue(text[4]) + HexValue(text[5]),
     b |-> 16 * HexValue(text[6]) + HexValue(text[7])]

\* lib.rs:156-160: write!(f, "#{:02x?}{:02x?}{:02x}", r, g, b)
DisplayRgb(rgb) ==
    <<"#", HexDigits[(rgb.r \div 16) + 1], HexDigits[(rgb.r % 16) + 1],
           HexDigits[(rgb.g \div 16) + 1], HexDigits[(rgb.g % 16) + 1],
           HexDigits[(rgb.b \div 16) + 1], HexDigits[(rgb.b % 16) + 1]>>

\* A colour table that gives green the value of red.
fill_named_green_as_red ==
    [Black            |-> ParseRgb(<<"#", "0", "7", "3", "6", "4", "2">>),
     Red              |-> ParseRgb(<<"#", "d", "c", "3", "2", "2", "f">>),
     Green            |-> ParseRgb(<<"#", "d", "c", "3", "2", "2", "f">>),
     Yellow           |-> ParseRgb(<<"#", "b", "5", "8", "9", "0", "0">>),
     Blue             |-> ParseRgb(<<"#", "2", "6", "8", "b", "d", "2">>),
     Magenta          |-> ParseRgb(<<"#", "d", "3", "3", "6", "8", "2">>),
     Cyan             |-> ParseRgb(<<"#", "2", "a", "a", "1", "9", "8">>),
     White            |-> ParseRgb(<<"#", "e", "e", "e", "8", "d", "5">>),
     BrightBlack      |-> ParseRgb(<<"#", "0", "0", "2", "b", "3", "6">>),
     BrightRed        |-> ParseRgb(<<"#", "c", "b", "4", "b", "1", "6">>),
     BrightGreen      |-> ParseRgb(<<"#", "5", "8", "6", "e", "7", "5">>),
     BrightYellow     |-> ParseRgb(<<"#", "6", "5", "7", "b", "8", "3">>),
     BrightBlue       |-> ParseRgb(<<"#", "8", "3", "9", "4", "9", "6">>),
     BrightMagenta    |-> ParseRgb(<<"#", "6", "c", "7", "1", "c", "4">>),
     BrightCyan       |-> ParseRgb(<<"#", "9", "3", "a", "1", "a", "1">>),
     BrightWhite      |-> ParseRgb(<<"#", "f", "d", "f", "6", "e", "3">>),
     Foreground       |-> ParseRgb(<<"#", "8", "3", "9", "4", "9", "6">>),
     Background       |-> ParseRgb(<<"#", "0", "0", "2", "b", "3", "6">>),
     Cursor           |-> ParseRgb(<<"#", "8", "3", "9", "4", "9", "6">>),
     DimBlack         |-> ParseRgb(<<"#", "0", "7", "3", "6", "4", "2">>),
     DimRed           |-> ParseRgb(<<"#", "d", "c", "3", "2", "2", "f">>),
     DimGreen         |-> ParseRgb(<<"#", "8", "5", "9", "9", "0", "0">>),
     DimYellow        |-> ParseRgb(<<"#", "b", "5", "8", "9", "0", "0">>),
     DimBlue          |-> ParseRgb(<<"#", "2", "6", "8", "b", "d", "2">>),
     DimMagenta       |-> ParseRgb(<<"#", "d", "3", "3", "6", "8", "2">>),
     DimCyan          |-> ParseRgb(<<"#", "2", "a", "a", "1", "9", "8">>),
     DimWhite         |-> ParseRgb(<<"#", "e", "e", "e", "8", "d", "5">>),
     DimForeground    |-> ParseRgb(<<"#", "8", "3", "9", "4", "9", "6">>),
     BrightForeground |-> ParseRgb(<<"#", "8", "3", "9", "4", "9", "6">>)]

\* colors.rs:44-75: the colour each named colour is given.
fill_named ==
    [Black            |-> ParseRgb(<<"#", "0", "7", "3", "6", "4", "2">>),
     Red              |-> ParseRgb(<<"#", "d", "c", "3", "2", "2", "f">>),
     Green            |-> ParseRgb(<<"#", "8", "5", "9", "9", "0", "0">>),
     Yellow           |-> ParseRgb(<<"#", "b", "5", "8", "9", "0", "0">>),
     Blue             |-> ParseRgb(<<"#", "2", "6", "8", "b", "d", "2">>),
     Magenta          |-> ParseRgb(<<"#", "d", "3", "3", "6", "8", "2">>),
     Cyan             |-> ParseRgb(<<"#", "2", "a", "a", "1", "9", "8">>),
     White            |-> ParseRgb(<<"#", "e", "e", "e", "8", "d", "5">>),
     BrightBlack      |-> ParseRgb(<<"#", "0", "0", "2", "b", "3", "6">>),
     BrightRed        |-> ParseRgb(<<"#", "c", "b", "4", "b", "1", "6">>),
     BrightGreen      |-> ParseRgb(<<"#", "5", "8", "6", "e", "7", "5">>),
     BrightYellow     |-> ParseRgb(<<"#", "6", "5", "7", "b", "8", "3">>),
     BrightBlue       |-> ParseRgb(<<"#", "8", "3", "9", "4", "9", "6">>),
     BrightMagenta    |-> ParseRgb(<<"#", "6", "c", "7", "1", "c", "4">>),
     BrightCyan       |-> ParseRgb(<<"#", "9", "3", "a", "1", "a", "1">>),
     BrightWhite      |-> ParseRgb(<<"#", "f", "d", "f", "6", "e", "3">>),
     Foreground       |-> ParseRgb(<<"#", "8", "3", "9", "4", "9", "6">>),
     Background       |-> ParseRgb(<<"#", "0", "0", "2", "b", "3", "6">>),
     Cursor           |-> ParseRgb(<<"#", "8", "3", "9", "4", "9", "6">>),
     DimBlack         |-> ParseRgb(<<"#", "0", "7", "3", "6", "4", "2">>),
     DimRed           |-> ParseRgb(<<"#", "d", "c", "3", "2", "2", "f">>),
     DimGreen         |-> ParseRgb(<<"#", "8", "5", "9", "9", "0", "0">>),
     DimYellow        |-> ParseRgb(<<"#", "b", "5", "8", "9", "0", "0">>),
     DimBlue          |-> ParseRgb(<<"#", "2", "6", "8", "b", "d", "2">>),
     DimMagenta       |-> ParseRgb(<<"#", "d", "3", "3", "6", "8", "2">>),
     DimCyan          |-> ParseRgb(<<"#", "2", "a", "a", "1", "9", "8">>),
     DimWhite         |-> ParseRgb(<<"#", "e", "e", "e", "8", "d", "5">>),
     DimForeground    |-> ParseRgb(<<"#", "8", "3", "9", "4", "9", "6">>),
     BrightForeground |-> ParseRgb(<<"#", "8", "3", "9", "4", "9", "6">>)]

\* vte: NamedColor as usize, the index of each named colour in the table.
NamedColor ==
    [Black            |-> 0,
     Red              |-> 1,
     Green            |-> 2,
     Yellow           |-> 3,
     Blue             |-> 4,
     Magenta          |-> 5,
     Cyan             |-> 6,
     White            |-> 7,
     BrightBlack      |-> 8,
     BrightRed        |-> 9,
     BrightGreen      |-> 10,
     BrightYellow     |-> 11,
     BrightBlue       |-> 12,
     BrightMagenta    |-> 13,
     BrightCyan       |-> 14,
     BrightWhite      |-> 15,
     Foreground       |-> 256,
     Background       |-> 257,
     Cursor           |-> 258,
     DimBlack         |-> 259,
     DimRed           |-> 260,
     DimGreen         |-> 261,
     DimYellow        |-> 262,
     DimBlue          |-> 263,
     DimMagenta       |-> 264,
     DimCyan          |-> 265,
     DimWhite         |-> 266,
     BrightForeground |-> 267,
     DimForeground    |-> 268]

\* Color::Named, Color::Indexed and Color::Spec
Named(name) ==
    [kind |-> "Named", name |-> name, index |-> 0,
     rgb |-> [r |-> 0, g |-> 0, b |-> 0]]

Indexed(index) ==
    [kind |-> "Indexed", name |-> "none", index |-> index,
     rgb |-> [r |-> 0, g |-> 0, b |-> 0]]

Spec(rgb) == [kind |-> "Spec", name |-> "none", index |-> 0, rgb |-> rgb]

\* n slots holding None.
RECURSIVE NoneSlots(_)
NoneSlots(n) ==
    IF n = 0 THEN <<>>
    ELSE IF n % 2 = 0 THEN LET half == NoneSlots(n \div 2) IN half \o half
    ELSE Append(NoneSlots(n - 1), <<>>)

\* alacritty_terminal: Colors::default(), every one of the 269 slots None.
\* The table is a sequence: the slot of index i is its element i + 1.
AlacrittyColors == NoneSlots(269)

\* colors[index], and colors[index] = Some(rgb)
At(colors, index) == colors[index + 1]

Put(colors, index, rgb) == [colors EXCEPT ![index + 1] = <<rgb>>]

\* Indexing past the end of the table panics: no table is built.
IndexPanics(colors, index) == index >= Len(colors)

\* colors.rs:44-75: fill_named, each named colour stored at its index.
RECURSIVE fill_named_slots(_, _)
fill_named_slots(colors, names) ==
    IF names = {} THEN colors
    ELSE LET name == CHOOSE n \in names : TRUE
         IN  IF IndexPanics(colors, NamedColor[name]) THEN <<>> ELSE
             fill_named_slots(Put(colors, NamedColor[name], fill_named[name]),
                              names \ {name})

\* A u8.
U8(v) == v % 256

\* A cube channel of 40 * axis + 55 also where the axis is 0.
cube_value_no_zero(axis) == U8(axis * 40 + 55)

\* colors.rs:82-84: a channel of the cube.
cube_value(axis) == IF axis = 0 THEN 0 ELSE U8(axis * 40 + 55)

\* colors.rs:80-94: the innermost loop of fill_cube; the state of the loops
\* is the table and the index of the next slot.
RECURSIVE fill_cube_b(_, _, _, _)
fill_cube_b(st, r, g, b) ==
    IF b >= 6 THEN st
    ELSE IF IndexPanics(st.colors, st.index)
    THEN [colors |-> <<>>, index |-> st.index]
    ELSE fill_cube_b(
             [colors |-> Put(st.colors, st.index,
                             [r |-> cube_value(r), g |-> cube_value(g),
                              b |-> cube_value(b)]),
              index  |-> st.index + 1],
             r, g, b + 1)

\* colors.rs:79: the middle loop of fill_cube.
RECURSIVE fill_cube_g(_, _, _)
fill_cube_g(st, r, g) ==
    IF g >= 6 THEN st
    ELSE fill_cube_g(fill_cube_b(st, r, g, 0), r, g + 1)

\* colors.rs:78: the outermost loop of fill_cube.
RECURSIVE fill_cube_r(_, _)
fill_cube_r(st, r) ==
    IF r >= 6 THEN st
    ELSE fill_cube_r(fill_cube_g(st, r, 0), r + 1)

\* colors.rs:77-97: fill_cube; index starts at 16.
fill_cube(colors) == fill_cube_r([colors |-> colors, index |-> 16], 0).colors

\* colors.rs:99-115: fill_gray_ramp; index starts at 232.
RECURSIVE fill_gray_ramp(_, _, _)
fill_gray_ramp(colors, i, index) ==
    IF i >= 24 THEN colors
    ELSE IF IndexPanics(colors, index) THEN <<>>
    ELSE fill_gray_ramp(
             Put(colors, index, [r |-> U8(i * 10 + 8), g |-> U8(i * 10 + 8),
                                 b |-> U8(i * 10 + 8)]),
             i + 1, index + 1)

\* colors.rs:30-41: Colors::default
Colors_default ==
    fill_gray_ramp(
        fill_cube(fill_named_slots(AlacrittyColors, DOMAIN NamedColor)),
        0, 232)

\* colors.rs:16-24: the slot to_rgb reads, or the colour itself.
Slot(colors, color) ==
    IF color.kind = "Named" THEN At(colors, NamedColor[color.name])
    ELSE IF color.kind = "Indexed" THEN At(colors, color.index)
    ELSE <<color.rgb>>

\* colors.rs:15-27: Colors::to_rgb on the table of Colors::default, where
\* the slot of a named colour holds what fill_named gave it.
to_rgb(color) ==
    IF color.kind = "Named" THEN fill_named[color.name]
    ELSE IF color.kind = "Indexed" THEN At(Colors_default, color.index)[1]
    ELSE color.rgb

\* The cell of an empty grid.
AlacrittyBlank ==
    [c |-> " ", fg |-> Named("Foreground"), bg |-> Named("Background")]

\* lib.rs:175-185: Cell::from_alacritty_cell (the style flags left out)
from_alacritty_cell(cell) ==
    [c |-> cell.c, fg |-> to_rgb(cell.fg), bg |-> to_rgb(cell.bg)]

\* alacritty_terminal: Term::new with a TermSize
AlacrittyNew(lines, columns) ==
    [lines |-> lines, columns |-> columns,
     cells |-> [i \in 1..(lines * columns) |-> AlacrittyBlank],
     cursor |-> 0, fg |-> Named("Foreground")]

\* alacritty_terminal: the grid scrolled up by one line.
AlacrittyScrolled(g) ==
    [g EXCEPT
        !.cells = [i \in 1..(g.lines * g.columns) |->
                     IF i + g.columns <= g.lines * g.columns
                     THEN g.cells[i + g.columns] ELSE AlacrittyBlank],
        !.cursor = (g.lines - 1) * g.columns]

\* alacritty_terminal: Term::input, a printable character at the cursor,
\* the line wrapping and the grid scrolling when it is full.
AlacrittyInput(g, ch) ==
    LET h == IF g.cursor >= g.lines * g.columns THEN AlacrittyScrolled(g)
             ELSE g
    IN  [h EXCEPT !.cells[h.cursor + 1] =
                      [c |-> ch, fg |-> h.fg, bg |-> Named("Background")],
                  !.cursor = h.cursor + 1]

\* The named colours of SGR 30..37.
SgrColors ==
    <<"Black", "Red", "Green", "Yellow", "Blue", "Magenta", "Cyan", "White">>

\* alacritty_terminal: Term::terminal_attribute for SGR 0 and SGR 30..37.
AlacrittySgr(g, param) ==
    IF param = 0 THEN [g EXCEPT !.fg = Named("Foreground")]
    ELSE IF param >= 30 /\ param <= 37
    THEN [g EXCEPT !.fg = Named(SgrColors[param - 29])]
    ELSE g

\* alacritty_terminal: Term::resize; the cells that fit are kept in place.
AlacrittyResize(g, lines, columns) ==
    [lines |-> lines, columns |-> columns,
     cells |-> [i \in 1..(lines * columns) |->
                  LET y == (i - 1) \div columns
                      x == (i - 1) % columns
                  IN  IF y < g.lines /\ x < g.columns
                      THEN g.cells[y * g.columns + x + 1]
                      ELSE AlacrittyBlank],
     cursor |-> Min(g.cursor, lines * columns),
     fg |-> g.fg]

\* The characters of the streams, by code.
Chr(byte) ==
    IF byte = 97 THEN "a" ELSE IF byte = 99 THEN "c"
    ELSE IF byte = 111 THEN "o" ELSE IF byte = 116 THEN "t"
    ELSE IF byte = 32 THEN " " ELSE "?"

\* vte: Processor::new(), in the ground state.
ProcessorNew == [state |-> "ground", param |-> 0]

\* vte: Processor::advance by one byte on emulator g: ESC, then [, then
\* the digits of one parameter, then m dispatch an SGR; a printable byte in
\* the ground state is an input.
Advanced(p, g, byte) ==
    IF p.state = "ground"
    THEN IF byte = 27 THEN [processor |-> [p EXCEPT !.state = "escape"],
                            term |-> g]
         ELSE [processor |-> p, term |-> AlacrittyInput(g, Chr(byte))]
    ELSE IF p.state = "escape"
    THEN IF byte = 91
         THEN [processor |-> [state |-> "csi", param |-> 0], term |-> g]
         ELSE [processor |-> ProcessorNew, term |-> g]
    ELSE IF byte >= 48 /\ byte <= 57
    THEN [processor |-> [p EXCEPT !.param = (p.param * 10 + byte - 48) % 100],
          term |-> g]
    ELSE IF byte = 109
    THEN [processor |-> ProcessorNew, term |-> AlacrittySgr(g, p.param)]
    ELSE [processor |-> ProcessorNew, term |-> g]

\* lib.rs:604-622: Term::new
Term_new(lines, columns) ==
    [lines |-> lines, columns |-> columns,
     term |-> AlacrittyNew(lines, columns), processor |-> ProcessorNew]

\* lib.rs:625-630: Term::process
process(t, byte) ==
    LET a == Advanced(t.processor, t.term, byte)
    IN  [t EXCEPT !.term = a.term, !.processor = a.processor]

\* A resize that reaches the emulator and not the fields of Term.
resize_emulator_only(t, lines, columns) ==
    [t EXCEPT !.term = AlacrittyResize(t.term, lines, columns)]

\* lib.rs:651-659: Term::resize
resize(t, lines, columns) ==
    [t EXCEPT !.lines = lines, !.columns = columns,
              !.term = AlacrittyResize(t.term, lines, columns)]

\* lib.rs:662-676: Term::current_screen, the Screen it returns.
Screen_of(t) ==
    [lines |-> t.lines, columns |-> t.columns,
     cells |-> [i \in 1..Len(t.term.cells) |->
                  from_alacritty_cell(t.term.cells[i])]]

\* A snapshot that takes the cells out of the emulator.
TermAfterScreenTaken(t) ==
    [t EXCEPT !.term = AlacrittyNew(t.term.lines, t.term.columns)]

\* lib.rs:662: current_screen(&self), the Term after the call.
TermAfterScreen(t) == t

\* lib.rs:530-532, 551-553: Screen::idx and Screen::get
idx(scr, y, x) == y * scr.columns + x

\* Some(cell) is <<cell>>, None is <<>>.
get(scr, line, column) ==
    IF idx(scr, line, column) < Len(scr.cells)
    THEN <<scr.cells[idx(scr, line, column) + 1]>> ELSE <<>>

\* ESC [ n m
Sgr(param) == <<27, 91, 48 + (param \div 10), 48 + (param % 10), 109>>

\* ESC [ 0 m
SgrReset == <<27, 91, 48, 109>>

\* The streams fed: some text, a single SGR foreground colour, a run of
\* text, a reset, and some more text.
Streams ==
    [prefix : {<<>>, <<97>>},
     sgr    : {31, 32},
     run    : {<<99>>, <<99, 111>>},
     suffix : {<<>>, <<116>>}]

StreamBytes(st) == st.prefix \o Sgr(st.sgr) \o st.run \o SgrReset \o st.suffix

TermNew ==
    /\ tm_term = <<>>
    /\ \E lines \in 1..MaxTermLines, columns \in 1..MaxTermColumns :
          tm_term' = <<Term_new(lines, columns)>>
    /\ \E st \in Streams :
          /\ tm_stream' = <<st>>
          /\ tm_bytes' = StreamBytes(st)
    /\ UNCHANGED <<tm_screens, tm_resizes>>
    /\ UNCHANGED <<ringVars, niVars, queueVars, iaVars, cbVars, mainVars, svgVars, colVars, wscVars>>

TermProcess ==
    /\ tm_term # <<>>
    /\ tm_bytes # <<>>
    /\ tm_term' = <<process(tm_term[1], Head(tm_bytes))>>
    /\ tm_bytes' = Tail(tm_bytes)
    /\ UNCHANGED <<tm_stream, tm_screens, tm_resizes>>
    /\ UNCHANGED <<ringVars, niVars, queueVars, iaVars, cbVars, mainVars, svgVars, colVars, wscVars>>

TermResizes ==
    /\ tm_term # <<>>
    /\ tm_resizes < MaxTermResizes
    /\ \E lines \in 1..MaxTermLines, columns \in 1..MaxTermColumns :
          tm_term' = <<resize(tm_term[1], lines, columns)>>
    /\ tm_resizes' = tm_resizes + 1
    /\ UNCHANGED <<tm_stream, tm_bytes, tm_screens>>
    /\ UNCHANGED <<ringVars, niVars, queueVars, iaVars, cbVars, mainVars, svgVars, colVars, wscVars>>

TermCurrentScreen ==
    /\ tm_term # <<>>
    /\ Len(tm_screens) < MaxScreens
    /\ tm_screens' = Append(tm_screens, Screen_of(tm_term[1]))
    /\ tm_term' = <<TermAfterScreen(tm_term[1])>>
    /\ UNCHANGED <<tm_stream, tm_bytes, tm_resizes>>
    /\ UNCHANGED <<ringVars, niVars, queueVars, iaVars, cbVars, mainVars, svgVars, colVars, wscVars>>

TermNext == TermNew \/ TermProcess \/ TermResizes \/ TermCurrentScreen

TermSpec == Init /\ [][TermNext]_vars

(***************************************************************************)
(* The colour table on its own: Colors::default builds it, to_rgb reads    *)
(* it for a named colour, an indexed colour or a colour given as rgb.      *)
(***************************************************************************)
ColorsAsked ==
    {Named(name) : name \in DOMAIN NamedColor}
    \cup {Indexed(index) : index \in 0..255}
    \cup {Spec([r |-> v, g |-> 255 - v, b |-> 0]) : v \in {0, 255}}

\* colors.rs:30-41: Colors::default
ColorsNew ==
    /\ col_table = <<>>
    /\ col_table' = <<Colors_default>>
    /\ UNCHANGED col_result
    /\ UNCHANGED <<ringVars, niVars, queueVars, iaVars, cbVars, tmVars, mainVars, svgVars, wscVars>>

\* colors.rs:15-27: Colors::to_rgb; an empty slot is where expect panics.
ColorsToRgb ==
    /\ col_table # <<>>
    /\ \E color \in ColorsAsked :
          col_result' = <<color, Slot(col_table[1], color)>>
    /\ UNCHANGED col_table
    /\ UNCHANGED <<ringVars, niVars, queueVars, iaVars, cbVars, tmVars, mainVars, svgVars, wscVars>>

ColorsNext == ColorsNew \/ ColorsToRgb

ColorsSpec == Init /\ [][ColorsNext]_vars

(***************************************************************************)
(* Screen::to_svg (src/termsnap-lib/src/lib.rs:351-527) and                *)
(* most_common_color (src/termsnap-lib/src/colors.rs:117-170).  What is     *)
(* written is kept as the sequence of its elements, each with its          *)
(* attributes; a length is a whole number of 1/units_per_em pixels, so     *)
(* that the advance of the default metrics at 12px, 7.2px, is 7200.        *)
(***************************************************************************)
FONT_SIZE_PX == 12

\* lib.rs:78-83: FontMetrics::DEFAULT
DEFAULT ==
    [units_per_em |-> 1000, advance |-> 600, line_height |-> 1200,
     descent |-> 300]

\* lib.rs:138-145: at_font_size, each length times font_size / units_per_em.
at_font_size(metrics, font_size) ==
    [advance |-> metrics.advance * font_size,
     line_height |-> metrics.line_height * font_size,
     descent |-> metrics.descent * font_size]

font_metrics == at_font_size(DEFAULT, FONT_SIZE_PX)

\* An element written: its tag, its x, y, width and height (the viewBox of
\* svg, the textLength of text), its fill and its text content.
Element(tag, x, y, width, height, fill, content) ==
    [tag |-> tag, x |-> x, y |-> y, width |-> width, height |-> height,
     fill |-> fill, content |-> content]

\* u16 arithmetic.
U16 == 65536

\* x.saturating_sub(1)
saturating_sub_1(x) == IF x = 0 THEN 0 ELSE x - 1

\* lib.rs:259-277: fmt_rect
fmt_rect(x0, y0, x1, y1, color) ==
    Element("rect", x0 * font_metrics.advance, y0 * font_metrics.line_height,
            (x1 - x0 + 1) * font_metrics.advance,
            (y1 - y0 + 1) * font_metrics.line_height,
            DisplayRgb(color), <<>>)

\* char::is_whitespace, of the characters of the Screens formatted: the
\* space, and the tab for the white space that is not the space.
is_whitespace(ch) == ch \in {" ", "\t"}

\* A text line that keeps its trailing white space.
chars_untrimmed(text) == text

\* lib.rs:247-256: TextLine::chars, the text without its trailing white
\* space.
RECURSIVE chars(_)
chars(text) ==
    IF text # <<>> /\ is_whitespace(text[Len(text)])
    THEN chars(SubSeq(text, 1, Len(text) - 1)) ELSE text

\* An escape that writes & as it is.
RECURSIVE EscapedAmpRaw(_, _)
EscapedAmpRaw(text, prev_char_was_space) ==
    IF text = <<>> THEN <<>>
    ELSE LET char == Head(text)
             piece ==
                 IF char = " "
                 THEN IF prev_char_was_space
                      THEN <<"&", "#", "1", "6", "0", ";">> ELSE <<" ">>
                 ELSE IF char = "<" THEN <<"&", "l", "t", ";">>
                 ELSE <<char>>
         IN  piece \o EscapedAmpRaw(Tail(text), char = " ")

\* lib.rs:314-332: the loop of fmt_text over the characters.
RECURSIVE Escaped(_, _)
Escaped(text, prev_char_was_space) ==
    IF text = <<>> THEN <<>>
    ELSE LET char == Head(text)
             piece ==
                 IF char = " "
                 THEN IF prev_char_was_space
                      THEN <<"&", "#", "1", "6", "0", ";">> ELSE <<" ">>
                 ELSE IF char = "<" THEN <<"&", "l", "t", ";">>
                 ELSE IF char = "&" THEN <<"&", "a", "m", "p", ";">>
                 ELSE <<char>>
         IN  piece \o Escaped(Tail(text), char = " ")

\* lib.rs:279-336: fmt_text (the style is the fill alone)
fmt_text(x, y, text_line, style) ==
    Element("text", x * font_metrics.advance,
            (y + 1) * font_metrics.line_height - font_metrics.descent,
            Len(chars(text_line)) * font_metrics.advance, 0,
            DisplayRgb(style), Escaped(chars(text_line), FALSE))

\* colors.rs:157: screen.lines() * screen.columns(), a product of two u16:
\* it overflows from 65536 cells on.
Overflows(scr) == scr.lines * scr.columns >= U16

\* colors.rs:157: the end of the range counted, the product where it has
\* not panicked: a u16.
cells_counted(scr) == (scr.lines * scr.columns) % U16

\* colors.rs:157-162: the count of each background colour among the cells
\* idx..n-1 added to counts; a colour not yet counted is inserted last.
RECURSIVE Counted(_, _, _, _)
Counted(scr, n, i, counts) ==
    IF i >= n THEN counts
    ELSE LET bg == scr.cells[i + 1].bg
             at == {j \in 1..Len(counts) : counts[j].key = bg}
         IN  Counted(scr, n, i + 1,
                 IF at = {}
                 THEN Append(counts, [key |-> bg, count |-> 1])
                 ELSE [j \in 1..Len(counts) |->
                         IF j \in at
                         THEN [key |-> bg, count |-> counts[j].count + 1]
                         ELSE counts[j]])

\* All the orders of the entries of a map.
iter_RandomState(counts) ==
    {[j \in 1..Len(counts) |-> counts[perm[j]]] :
        perm \in {f \in [1..Len(counts) -> 1..Len(counts)] :
                    \A a, b \in 1..Len(counts) : a # b => f[a] # f[b]}}

\* colors.rs:131-155, 164-165: counts.iter().  Every key hashes to a
\* multiple of 256 under NoHashHasher, so every entry is put in the first
\* free bucket and the map is iterated in the order of insertion: there is
\* one order, the same on every run.
iter(counts) == {counts}

\* colors.rs:166: max_by_key, the last of the entries with the highest count.
max_by_key(entries) ==
    entries[CHOOSE j \in 1..Len(entries) :
                /\ \A a \in 1..Len(entries) :
                      entries[a].count <= entries[j].count
                /\ \A a \in (j + 1)..Len(entries) :
                      entries[a].count < entries[j].count]

\* A fallback that is the default background.
unwrap_or_Background == fill_named.Background

\* colors.rs:169: .unwrap_or(Rgb { r: 0, g: 0, b: 0 })
unwrap_or == [r |-> 0, g |-> 0, b |-> 0]

\* colors.rs:117-170: most_common_color, the colours it can return; where
\* the product overflows it has wrapped.
most_common_color(scr) ==
    LET counts == Counted(scr, cells_counted(scr), 0, <<>>)
    IN  IF counts = <<>> THEN {unwrap_or}
        ELSE {max_by_key(entries).key : entries \in iter(counts)}

\* lib.rs:436-444: the last column of line y0 reached from x0 through cells
\* of colour bg.
RECURSIVE EndX(_, _, _, _)
EndX(scr, y0, end_x, bg) ==
    IF end_x + 1 < scr.columns
       /\ scr.cells[idx(scr, y0, end_x + 1) + 1].bg = bg
    THEN EndX(scr, y0, end_x + 1, bg) ELSE end_x

\* lib.rs:447-455: all, over the columns x0 + 1 .. columns - 1 of line y1.
AllOfLine(scr, y1, x0, bg) ==
    \A x1 \in (x0 + 1)..(scr.columns - 1) :
        scr.cells[idx(scr, y1, x1) + 1].bg = bg

\* lib.rs:446-460: the last line reached from y0 through lines that pass.
RECURSIVE EndY(_, _, _, _)
EndY(scr, end_y, x0, bg) ==
    IF end_y + 1 < scr.lines /\ AllOfLine(scr, end_y + 1, x0, bg)
    THEN EndY(scr, end_y + 1, x0, bg) ELSE end_y

\* lib.rs:422-431: a cell that is not skipped: not drawn, and not of the
\* main colour.
Undrawn(scr, main_bg, drawn, y0, x0) ==
    /\ ~drawn[idx(scr, y0, x0) + 1]
    /\ scr.cells[idx(scr, y0, x0) + 1].bg # main_bg

Least(S) == CHOOSE a \in S : \A b \in S : a <= b

\* lib.rs:419-472: the cells x0 .. columns - 1 of line y0, going straight
\* to the next cell that is not skipped.  st is drawn and the rectangles
\* written so far.
RECURSIVE RectsOfLine(_, _, _, _, _)
RectsOfLine(scr, main_bg, st, y0, x0) ==
    LET todo == {x \in x0..(scr.columns - 1) :
                    Undrawn(scr, main_bg, st.drawn, y0, x)}
    IN  IF todo = {} THEN st
        ELSE LET x == Least(todo)
                 bg == scr.cells[idx(scr, y0, x) + 1].bg
                 end_x == EndX(scr, y0, x, bg)
                 end_y == EndY(scr, y0, x, bg)
                 drawn == [k \in 1..Len(st.drawn) |->
                            \/ st.drawn[k]
                            \/ /\ (k - 1) \div scr.columns >= y0
                               /\ (k - 1) \div scr.columns <= end_y
                               /\ (k - 1) % scr.columns >= x
                               /\ (k - 1) % scr.columns <= end_x]
             IN  RectsOfLine(scr, main_bg,
                     [drawn |-> drawn,
                      out |-> Append(st.out,
                                     fmt_rect(x, y0, end_x, end_y, bg))],
                     y0, x + 1)

\* lib.rs:417-473: the lines y0 .. lines - 1, going straight to the next
\* line with a cell that is not skipped.
RECURSIVE Rects(_, _, _, _)
Rects(scr, main_bg, st, y0) ==
    LET todo == {y \in y0..(scr.lines - 1) :
                    \E x \in 0..(scr.columns - 1) :
                        Undrawn(scr, main_bg, st.drawn, y, x)}
    IN  IF todo = {} THEN st.out
        ELSE Rects(scr, main_bg,
                   RectsOfLine(scr, main_bg, st, Least(todo), 0),
                   Least(todo) + 1)

\* lib.rs:484-510: the cells x .. columns - 1 of line y, then the text left.
\* st is the style, start_x, text_line and the texts written so far.
RECURSIVE TextOfLine(_, _, _, _)
TextOfLine(scr, st, y, x) ==
    IF x >= scr.columns
    THEN IF st.text_line # <<>>
         THEN Append(st.out, fmt_text(st.start_x, y, st.text_line, st.style))
         ELSE st.out
    ELSE LET cell == scr.cells[idx(scr, y, x) + 1]
             changed == cell.fg # st.style
             flushed == IF changed /\ st.text_line # <<>>
                        THEN Append(st.out, fmt_text(st.start_x, y,
                                                     st.text_line, st.style))
                        ELSE st.out
             text_line == IF changed THEN <<>> ELSE st.text_line
             skipped == text_line = <<>> /\ cell.c = " "
         IN  TextOfLine(scr,
                 [style |-> cell.fg,
                  start_x |-> IF text_line = <<>> THEN x ELSE st.start_x,
                  text_line |-> IF skipped THEN text_line
                                ELSE Append(text_line, cell.c),
                  out |-> flushed],
                 y, x + 1)

\* lib.rs:476-511: the lines y .. lines - 1, going straight to the next
\* line that is not all spaces (of a line of spaces nothing is pushed).
RECURSIVE Texts(_, _, _)
Texts(scr, out, y) ==
    LET todo == {l \in y..(scr.lines - 1) :
                    \E x \in 0..(scr.columns - 1) :
                        scr.cells[idx(scr, l, x) + 1].c # " "}
    IN  IF todo = {} THEN out
        ELSE LET l == Least(todo)
             IN  Texts(scr,
                       TextOfLine(scr,
                           [style |-> scr.cells[idx(scr, l, 0) + 1].fg,
                            start_x |-> 0, text_line |-> <<>>, out |-> out],
                           l, 0),
                       l + 1)

\* main.rs:397-402 and lib.rs:389-397: the fonts, then monospace.
fonts ==
    <<"ui-monospace", "Consolas", "Liberation Mono", "Source Code Pro",
      "monospace">>

\* lib.rs:375-403: the svg element with its viewBox, the style and the
\* opening of g.
Header(scr) ==
    <<Element("svg", 0, 0, scr.columns * font_metrics.advance,
              scr.lines * font_metrics.line_height, <<>>, <<>>),
      Element("style", 0, 0, 0, FONT_SIZE_PX, <<>>, fonts),
      Element("g", 0, 0, 0, 0, <<>>, <<"screen">>)>>

\* lib.rs:479-480: cells[idx] of the first cell of a line is out of bounds.
OutOfBounds(scr) ==
    \E y \in 0..(scr.lines - 1) : idx(scr, y, 0) >= Len(scr.cells)

\* lib.rs:366-519: Display::fmt of the Svg with main_bg the colour that
\* most_common_color returned.  A debug build panics in most_common_color
\* where the product overflows, after the header has been written; every
\* build panics where the loop over the text indexes out of bounds, after
\* the rectangles have been written.
to_svg(scr, build, main_bg) ==
    IF Overflows(scr) /\ build = "debug"
    THEN [panicked |-> TRUE, why |-> "overflow", elements |-> Header(scr)]
    ELSE LET rects ==
                 <<fmt_rect(0, 0, saturating_sub_1(scr.columns),
                            saturating_sub_1(scr.lines), main_bg)>>
                 \o Rects(scr, main_bg,
                          [drawn |-> [k \in 1..(scr.lines * scr.columns) |->
                                        FALSE],
                           out |-> <<>>], 0)
         IN  IF OutOfBounds(scr)
             THEN [panicked |-> TRUE, why |-> "index",
                   elements |-> Header(scr) \o rects]
             ELSE [panicked |-> FALSE, why |-> "none",
                   elements |->
                       Header(scr) \o rects \o Texts(scr, <<>>, 0)
                       \o <<Element("/g", 0, 0, 0, 0, <<>>, <<>>),
                            Element("/svg", 0, 0, 0, 0, <<>>, <<>>)>>]

\* The cells of the Screens formatted: a blank on one of three backgrounds,
\* and a character (a letter, a space, <, & or a tab) in one of two
\* foregrounds on the default background.
BgCells ==
    {[c |-> " ", fg |-> fill_named.Foreground, bg |-> fill_named[name]] :
        name \in {"Background", "Red", "Green"}}

TextCells ==
    {[c |-> ch, fg |-> fill_named[name], bg |-> fill_named.Background] :
        ch \in {"a", " ", "<", "&", "\t"}, name \in {"Foreground", "Green"}}

\* The Screens formatted: the Screens of no cells (no lines, no columns or
\* neither), every Screen of up to MaxSvgLines by MaxSvgColumns blanks, every
\* one-line Screen of up to MaxTextColumns characters.
Screens ==
    {[lines |-> size[1], columns |-> size[2], cells |-> <<>>] :
        size \in {size \in (0..MaxSvgLines) \X (0..MaxSvgColumns) :
                     size[1] = 0 \/ size[2] = 0}}
    \cup UNION {{[lines |-> size[1], columns |-> size[2], cells |-> cells] :
                    cells \in [1..(size[1] * size[2]) -> BgCells]} :
                size \in (1..MaxSvgLines) \X (1..MaxSvgColumns)}
    \cup UNION {{[lines |-> 1, columns |-> columns, cells |-> cells] :
                    cells \in [1..columns -> TextCells]} :
                columns \in 1..MaxTextColumns}

\* The blank Screen of a Term of 256 lines by 256 columns.
LargeScreen ==
    [lines |-> 256, columns |-> 256,
     cells |-> [k \in 1..(256 * 256) |-> from_alacritty_cell(AlacrittyBlank)]]

\* A Screen as svg_screen keeps it, without the blanks at its end, and the
\* Screen that is kept.
Packed(scr) ==
    LET nonblank == {k \in 1..Len(scr.cells) :
                      scr.cells[k] # from_alacritty_cell(AlacrittyBlank)}
    IN  [lines |-> scr.lines, columns |-> scr.columns,
         cells |-> IF nonblank = {} THEN <<>>
                   ELSE SubSeq(scr.cells, 1,
                               CHOOSE k \in nonblank : \A a \in nonblank : a <= k)]

Unpacked(kept) ==
    [lines |-> kept.lines, columns |-> kept.columns,
     cells |-> [k \in 1..(kept.lines * kept.columns) |->
                  IF k <= Len(kept.cells) THEN kept.cells[k]
                  ELSE from_alacritty_cell(AlacrittyBlank)]]

\* The Screen being formatted.
Formatted == Unpacked(svg_screen[1])

\* A Screen comes to be formatted, by a debug or a release build.
SvgScreen ==
    /\ svg_screen = <<>>
    /\ \E scr \in Screens : svg_screen' = <<Packed(scr)>>
    /\ svg_build' \in {"debug", "release"}
    /\ UNCHANGED svg_out
    /\ UNCHANGED <<ringVars, niVars, queueVars, iaVars, cbVars, tmVars, mainVars, colVars, wscVars>>

SvgLargeScreen ==
    /\ svg_screen = <<>>
    /\ svg_screen' = <<Packed(LargeScreen)>>
    /\ svg_build' \in {"debug", "release"}
    /\ UNCHANGED svg_out
    /\ UNCHANGED <<ringVars, niVars, queueVars, iaVars, cbVars, tmVars, mainVars, colVars, wscVars>>

\* lib.rs:351-527 and main.rs:410-412: the Screen is formatted.
SvgFormat ==
    /\ svg_screen # <<>>
    /\ Len(svg_out) < MaxFormats
    /\ \E main_bg \in most_common_color(Formatted) :
          svg_out' = Append(svg_out, to_svg(Formatted, svg_build, main_bg))
    /\ UNCHANGED <<svg_screen, svg_build>>
    /\ UNCHANGED <<ringVars, niVars, queueVars, iaVars, cbVars, tmVars, mainVars, colVars, wscVars>>

SvgNext == SvgScreen \/ SvgLargeScreen \/ SvgFormat

SvgSpec == Init /\ [][SvgNext]_vars

(***************************************************************************)
(* main (src/src/main.rs:366-416) up to the point where run hands over to  *)
(* interactive, non_interactive or from_read.  The command line is the     *)
(* flags and options main looks at; the environment is whether the         *)
(* parent's stdin and stdout are terminals.                                *)
(***************************************************************************)
Clis ==
    [interactive : BOOLEAN, out : BOOLEAN, lines : BOOLEAN,
     columns : BOOLEAN, command : BOOLEAN,
     stdin_tty : BOOLEAN, stdout_tty : BOOLEAN]

WarnSize == "Setting --lines and --columns has no effect"
WarnStdin == "stdin is not a tty"
WarnStdout == "stdout is not a tty"

\* Lines 381 and 385: the two conditions under which a warning about a
\* stream is printed.  Both ask parent_stdin.
StdinWarned(cli) == ~cli.stdin_tty

StdoutWarned(cli) == ~cli.stdin_tty

\* Lines 377-387: the warnings of interactive mode, in the order printed.
Warnings(cli) ==
    (IF cli.lines \/ cli.columns THEN <<WarnSize>> ELSE <<>>)
    \o (IF StdinWarned(cli) THEN <<WarnStdin>> ELSE <<>>)
    \o (IF StdoutWarned(cli) THEN <<WarnStdout>> ELSE <<>>)

\* Lines 367-370: Cli::parse and the two locks.
MainParse ==
    /\ main_pc = "parse"
    /\ \E cli \in Clis : main_cli' = <<cli>>
    /\ main_pc' = "interactive"
    /\ UNCHANGED <<main_stderr, main_started, main_result>>
    /\ UNCHANGED <<ringVars, niVars, queueVars, iaVars, cbVars, tmVars, svgVars, colVars, wscVars>>

\* Lines 372-388: if cli.interactive, bail without --out, else warn.
MainInteractive ==
    /\ main_pc = "interactive"
    /\ LET cli == main_cli[1]
       IN  IF cli.interactive /\ ~cli.out
           THEN /\ main_result' = "Err"
                /\ main_pc' = "done"
                /\ UNCHANGED main_stderr
           ELSE /\ main_stderr' = IF cli.interactive THEN Warnings(cli)
                                  ELSE <<>>
                /\ main_pc' = "command"
                /\ UNCHANGED main_result
    /\ UNCHANGED <<main_cli, main_started>>
    /\ UNCHANGED <<ringVars, niVars, queueVars, iaVars, cbVars, tmVars, svgVars, colVars, wscVars>>

\* Lines 390-392: no command and stdin a terminal: bail.
MainCommand ==
    /\ main_pc = "command"
    /\ LET cli == main_cli[1]
       IN  IF ~cli.command /\ cli.stdin_tty
           THEN /\ main_result' = "Err"
                /\ main_pc' = "done"
           ELSE /\ main_pc' = "run"
                /\ UNCHANGED main_result
    /\ UNCHANGED <<main_cli, main_stderr, main_started>>
    /\ UNCHANGED <<ringVars, niVars, queueVars, iaVars, cbVars, tmVars, svgVars, colVars, wscVars>>

\* Lines 395 and 447-487: run starts the subprocess on a pty and proxies
\* it, or reads stdin; it returns a Screen or an error.
MainRun ==
    /\ main_pc = "run"
    /\ LET cli == main_cli[1]
       IN  main_started' = IF ~cli.command THEN "from_read"
                           ELSE IF cli.interactive THEN "interactive"
                           ELSE "non_interactive"
    /\ \E ok \in BOOLEAN :
          IF ok THEN /\ main_pc' = "write"
                     /\ UNCHANGED main_result
          ELSE /\ main_pc' = "done"
               /\ main_result' = "Err"
    /\ UNCHANGED <<main_cli, main_stderr>>
    /\ UNCHANGED <<ringVars, niVars, queueVars, iaVars, cbVars, tmVars, svgVars, colVars, wscVars>>

\* Lines 404-415: the SVG is written to the file or printed; opening or
\* writing the file can fail.
MainWrite ==
    /\ main_pc = "write"
    /\ main_pc' = "done"
    /\ \E ok \in BOOLEAN :
          main_result' = IF ok \/ ~main_cli[1].out THEN "Ok" ELSE "Err"
    /\ UNCHANGED <<main_cli, main_stderr, main_started>>
    /\ UNCHANGED <<ringVars, niVars, queueVars, iaVars, cbVars, tmVars, svgVars, colVars, wscVars>>

MainNext ==
    MainParse \/ MainInteractive \/ MainCommand \/ MainRun \/ MainWrite

MainSpec == Init /\ [][MainNext]_vars

(***************************************************************************)
(* Properties of the ring on its own.                                      *)
(***************************************************************************)
\* C1: the ring is a FIFO: the bytes the sinks accepted, followed by the
\* unread bytes the ring still hands out, are exactly the bytes the sources
\* supplied, in order; so what the sinks accepted is a prefix of what was
\* supplied and nothing is lost, duplicated, reordered or overwritten.
RingIsFifo ==
    /\ IsPrefix(drained, supplied)
    /\ drained \o DrainAll(rb) = supplied

\* C3: as long as no more than C unread bytes were ever held (exactly C
\* included), len() is the number of bytes accepted by read minus the number
\* drained by write.
RingLenIsHeld == ~overflowed => len(rb) = Held

\* C5: a ring holding exactly C unread bytes reports is_full(), and the next
\* read takes nothing from a source that has bytes to give and returns Ok.
RingFullAtCapacity ==
    (~overflowed /\ Held = C) =>
        /\ is_full(rb)
        /\ LET r == SliceRead(rb, SourceData(Len(supplied), C))
           IN  r.moved = <<>> /\ r.res = "Ok"

\* C6: after any sequence of read and write calls, whatever the sources and
\* sinks answer, read_idx and write_idx are in [0, C) and len() <= C.
RingIndicesInRange ==
    /\ rb.read_idx \in 0..(C - 1)
    /\ rb.write_idx \in 0..(C - 1)
    /\ len(rb) <= C

\* The case of C6: a read that wrapped write_idx to 0 and then failed, after
\* a write had wrapped read_idx as well.
RingWrappedThenFailed ==
    /\ lastOp = "read"
    /\ lastRes.res = "Err"
    /\ lastRes.moved # <<>>
    /\ rb.write_idx = 0
    /\ Len(drained) >= C

\* C34: the Bytes iterator carried by the result of a read or a write
\* yields exactly the bytes that call transferred, in the order of the
\* transfer, and its length is their number, also when the transfer wraps
\* around the end of the array and when it totals C bytes (the ring never
\* having been given more than C unread bytes).
RingBytesAreTransferred ==
    (lastOp # "new" /\ ~overflowed) =>
        /\ BytesSeq(lastRes.bytes) = lastRes.moved
        /\ BytesLen(lastRes.bytes) = Len(lastRes.moved)

\* C35: a read or a write makes at most two calls on its source or sink,
\* and makes the second only after a first that transferred the whole slice
\* it was offered: a short transfer, an end of file or an error of the
\* first call ends the operation.
RingSecondCallAfterWholeSlice ==
    /\ lastRes.calls = Len(lastRes.log)
    /\ lastRes.calls <= 2
    /\ lastRes.calls = 2 =>
          /\ lastRes.log[1].oc.kind = "ok"
          /\ lastRes.log[1].oc.n > 0
          /\ lastRes.log[1].oc.n = lastRes.log[1].offered

\* The case of C35: a read whose first call filled the ring to the end of
\* the array and whose second call went on at its start.
RingReadTwoCalls ==
    /\ lastOp = "read"
    /\ lastRes.calls = 2
    /\ lastRes.log[2].oc.kind = "ok"
    /\ lastRes.log[2].oc.n > 0

\* What the last call made on the source or sink answered.
LastAnswer == lastRes.log[Len(lastRes.log)].oc

\* The index the call moves (write_idx for read, read_idx for write) went
\* from where the call found it to that many places further, around the
\* end of the array, and the Bytes start and end there.
IndexAdvancedByMoved ==
    LET index == IF lastOp = "read" THEN rb.write_idx ELSE rb.read_idx
    IN  /\ lastRes.bytes.to = index
        /\ index = (lastRes.bytes.cur + Len(lastRes.moved)) % C

\* C36: a call that WouldBlock or Interrupted ends gives Ok, one any other
\* error ends gives Err, one a transfer of 0 bytes ends gives EOF; in each
\* case the result carries exactly the bytes transferred before (none after
\* a first call) and the index is advanced by exactly their number.
RingOutcomesClassified ==
    (lastOp # "new" /\ lastRes.log # <<>>) =>
        /\ LastAnswer.kind = "ignored" => lastRes.res = "Ok"
        /\ LastAnswer.kind = "error" => lastRes.res = "Err"
        /\ (LastAnswer.kind = "ok" /\ LastAnswer.n = 0) => lastRes.res = "EOF"
        /\ (LastAnswer.kind # "ok" \/ LastAnswer.n = 0) =>
              /\ BytesSeq(lastRes.bytes) = lastRes.moved
              /\ Len(lastRes.log) = 1 => lastRes.moved = <<>>
              /\ IndexAdvancedByMoved

(***************************************************************************)
(* Properties of non_interactive.                                          *)
(***************************************************************************)
Terminated == pc \in {"done", "failed"}

\* The emulator has been asked nothing, so it sends no response.
NoResponses == \A i \in DOMAIN ChildWrote : ChildWrote[i] # DSR

EotCells == <<FromEot(CR), FromEot(END_OF_TRANSMISSION)>>

\* The loop is entering poll: no time has passed in it yet.
EnteringPoll == pc = "poll" /\ poll_elapsed = 0

\* C2: when the loop returns its snapshot, every byte the child wrote to the
\* PTY before it exited has been fed to the emulator.
NISnapshotHasAllOutput ==
    pc = "done" => screen = <<"screen", ChildWrote>>

\* C4: the bytes from parent stdin that reached the PTY are the bytes read
\* from parent stdin, each once and in the order read, and by the time a
\* byte of an EOT the proxy originated reaches the PTY all of them have.
NIStdinReachesPtyInOrder ==
    LET w == SelectSeq(written, IsFromStdin)
    IN  /\ IsPrefix(w, stdin_read)
        /\ (\E i \in DOMAIN written : IsFromEot(written[i])) => w = stdin_read

\* C7: once the child-exit event is available the loop breaks at the start
\* of its next iteration, and it is there when the poll it may be in has
\* returned: the event never waits longer than the 500 ms of one poll.
NILoopEndsOnChildExit ==
    exit_elapsed <= Timeout

\* C8: eot_state leaves None exactly in a step in which a read of parent
\* stdin returns EOF or Err, and it becomes SendEot; once it is not None it
\* stays so, parent stdin is not read again, and no poll asks for it.
NIEotStateFollowsStdin ==
    /\ [][/\ (eot_state = "None" /\ eot_state' # "None") <=>
                (stdin_res' # stdin_res /\ stdin_res' \in {"EOF", "Err"})
          /\ (eot_state = "None" /\ eot_state' # "None") =>
                eot_state' = "SendEot"
          /\ eot_state # "None" =>
                /\ eot_state' # "None"
                /\ stdin_read' = stdin_read
                /\ stdin_res' \in {stdin_res, "none"}
                /\ IsPrefix(stdin_pending, stdin_pending')]_vars
    /\ [](pc = "poll" /\ eot_state # "None" => ~poll_fds[1])

\* The case of C8: the EOT has been sent after a failed read while bytes
\* still wait on parent stdin, and the loop is in poll.
NIStdinLeftUnread ==
    /\ pc = "poll"
    /\ eot_state = "SentEot"
    /\ stdin_res = "none"
    /\ stdin_pending # <<>>

NIFirstEotAfterEof ==
    /\ []((stdin_read = <<>> /\ NoResponses) =>
            /\ eot_state = "SendEot" => pc \in {"top", "done"}
            /\ eot_count = 1 => written \o DrainAll(stdin_buf) = EotCells
            /\ (eot_count >= 1 /\ pc = "poll" /\ poll_elapsed >= 1) =>
                   IsPrefix(EotCells, written))
    /\ [][(eot_count' > eot_count /\ eot_count >= 1) =>
              eot_elapsed >= Timeout]_vars

\* The case of C10: one \r\x04 is with the PTY, time has passed since, and
\* less than 500 ms of it.
NIOneEotDelivered ==
    /\ stdin_read = <<>>
    /\ NoResponses
    /\ stdin_res = "none"
    /\ eot_count = 1
    /\ written = EotCells
    /\ pc = "poll"
    /\ eot_elapsed >= 1
    /\ eot_elapsed < Timeout

\* The bytes of parent stdin that the ring accepted and the PTY has not got.
StdinAllWritten == SelectSeq(written, IsFromStdin) = stdin_read

\* C11: whenever an EOT is enqueued the stdin ring holds nothing that still
\* has to reach the PTY and the response queue is empty, and what is enqueued
\* is \x04 alone if the last byte the PTY accepted was \r, and \r\x04 if it
\* was another byte or there was none.
NIEotEnqueuedOnEmpty ==
    [][eot_count' > eot_count =>
          /\ is_empty(stdin_buf)
          /\ StdinAllWritten
          /\ pty_write = <<>>
          /\ DrainAll(stdin_buf') =
                 IF written # <<>> /\ ByteOf(Last(written)) = CR
                 THEN <<FromEot(END_OF_TRANSMISSION)>>
                 ELSE EotCells]_vars

\* The cells of a response reach the PTY side by side: ESC, then its n.
ResponsesContiguous(w) ==
    \A i \in DOMAIN w :
        /\ w[i] = Response[1] =>
               (i = Len(w) \/ w[i + 1] = Response[2])
        /\ w[i] = Response[2] =>
               (i > 1 /\ w[i - 1] = Response[1])

\* C12: a response fragment is moved into the stdin ring only when nothing
\* in the ring still has to reach the PTY, so that every byte read from
\* parent stdin until then has been written before it; and the bytes of a
\* fragment reach the PTY without another byte between them, whole.
NIResponseSplicedOnEmpty ==
    /\ [][Len(pty_write') < Len(pty_write) =>
              (is_empty(stdin_buf) /\ StdinAllWritten)]_vars
    /\ [](ResponsesContiguous(written \o DrainAll(stdin_buf)))

\* What poll would return at once if the loop went through its top now: the
\* slots the top would populate (nothing being popped or enqueued there),
\* each ready as its descriptor is.
PollFdsNow ==
    <<ReadStdin(stdin_buf, eot_state, pty_write), TRUE,
      ~is_empty(stdin_buf) \/ SendEot(eot_state, eot_elapsed)
          \/ pty_write # <<>> >>

ReadyNow ==
    <<PollFdsNow[1] /\ StdinReady, PollFdsNow[2] /\ PtyReadable,
      PollFdsNow[3] /\ PtyWritable>>

\* The handlers, run on what is ready now, move no byte and change no state
\* of the loop.
HandlersIdle ==
    LET a == HandleStdin(Handling, ReadyNow[1])
        h == HandlePtyWrite(HandlePtyRead(a, ReadyNow[2]), ReadyNow[3])
    IN  /\ ~a.blocked
        /\ h.ring = stdin_buf
        /\ h.queue = pty_write
        /\ h.eot = eot_state
        /\ h.pending = stdin_pending
        /\ h.sread = stdin_read
        /\ h.out = pty_out
        /\ h.inn = pty_in
        /\ h.trm = term
        /\ h.wr = written
        /\ h.last = last_written_byte

\* The loop is at its top and the iteration it starts neither breaks, nor
\* pops a fragment, nor enqueues an EOT, nor blocks in poll (a descriptor
\* is ready at once), nor has a handler that moves a byte or changes the
\* state: the iteration ends in the state it began in, and so does every
\* one after it for as long as the child-exit event is not there.
Spins ==
    /\ pc = "top"
    /\ ~LoopBreaks(child_event)
    /\ ~(is_empty(stdin_buf) /\ pty_write # <<>>)
    /\ ~(is_empty(stdin_buf) /\ SendEot(eot_state, eot_elapsed))
    /\ AnyReady(ReadyNow)
    /\ HandlersIdle

\* C33: in each iteration of the loop either progress is made (a byte is
\* moved or a state transition fires) or poll blocks, until a descriptor is
\* ready or for 500 ms: the loop is in no state, a hangup or a read error
\* of the PTY before the child-exit event included, in which it iterates
\* again and again without blocking and without progress.
NINeverSpins == ~Spins

(***************************************************************************)
(* Properties of the response queue.                                       *)
(***************************************************************************)
\* s with some of its elements left out, the others in place.
RECURSIVE IsSubSeq(_, _)
IsSubSeq(s, t) ==
    IF s = <<>> THEN TRUE
    ELSE IF t = <<>> THEN FALSE
    ELSE IF Head(s) = Head(t) THEN IsSubSeq(Tail(s), Tail(t))
    ELSE IsSubSeq(s, Tail(t))

\* C13: the response queue never holds more than 128 fragments; a fragment
\* emitted while it holds 128 leaves the queue as it is, any other is put
\* at its back; and the fragments leave it in the order they were emitted.
QueueBoundedFifo ==
    /\ [](Len(outbound) <= PtyWriteCap)
    /\ [](IsSubSeq(popped \o outbound, emitted))
    /\ [][emitted' # emitted =>
              outbound' = IF Len(outbound) = PtyWriteCap THEN outbound
                          ELSE Append(outbound, Last(emitted'))]_vars

\* The case of C13: a fragment was discarded at a full queue, and a later
\* one was kept behind those that were in the queue, some of which have left.
QueueDroppedAndPopped ==
    /\ popped # <<>>
    /\ Len(outbound) = PtyWriteCap
    /\ Len(emitted) > Len(popped) + Len(outbound)
    /\ Last(outbound) = Last(emitted)

\* C14: a lasting error of the PTY, reported by a read or a write of it, ends
\* the loop: the loop does not go into another poll after it, and returns
\* the screen as the emulator has it.
NIPtyErrorEndsLoop ==
    /\ pty_failed => pc # "poll"
    /\ (pty_failed /\ pc = "done") => screen = <<"screen", term>>

(***************************************************************************)
(* Properties of the two loops as run calls them.                          *)
(***************************************************************************)
\* C15: in both loops, a poll that fails with EINTR sends the loop back to
\* its top with both rings, the response queue and the EOT state as they
\* were; a poll that fails otherwise ends the loop, which returns the error.
PollErrorsHandled ==
    /\ [][(pc = "poll" /\ poll_err' = "EINTR")
            => /\ pc' = "top"
               /\ UNCHANGED <<stdin_buf, pty_write, eot_state, eot_elapsed>>
               /\ UNCHANGED <<term, written, stdin_read>>]_vars
    /\ [][(ia_pc = "poll" /\ ia_poll_err' = "EINTR")
            => /\ ia_pc' = "top"
               /\ UNCHANGED <<ia_stdin_buf, ia_stdout_buf>>
               /\ UNCHANGED <<ia_term, ia_stdout, ia_pty_written>>]_vars
    /\ [][(pc = "poll" /\ poll_err' = "other")
            => (pc' = "failed" /\ screen' = <<"error">>)]_vars
    /\ [][(ia_pc = "poll" /\ ia_poll_err' = "other")
            => (ia_pc' = "failed" /\ ia_result' = <<"error">>)]_vars
    /\ [](pc = "failed" => screen = <<"error">>)
    /\ [](ia_pc = "failed" => ia_result = <<"error">>)

\* non_interactive is back in poll after an EINTR, the ring and the response
\* queue holding bytes and the EOT state set.
PollInterruptedWhileHolding ==
    /\ poll_err = "EINTR"
    /\ pc = "top"
    /\ ~is_empty(stdin_buf)
    /\ pty_write # <<>>
    /\ eot_state # "None"

(***************************************************************************)
(* Properties of interactive.                                              *)
(***************************************************************************)
\* C16: whichever way interactive is left (the child has exited, poll or
\* the reading of the window size has failed, the writing or flushing of
\* parent stdout has failed), the parent's terminal has its original
\* attributes again.
IARawModeRestored ==
    ia_pc \in {"done", "failed", "panicked"} => attrs = "orig"

\* C17: the PTY and the emulator always have the same size, so whenever
\* a PTY byte is fed to the emulator; they start equal, and an iteration
\* that finds the size-changed flag set clears it and leaves for poll with
\* both at the size of the terminal (or leaves the loop, the size unread).
IASizesAgree ==
    /\ [](pty_size = term_size)
    /\ [][ia_term' # ia_term
            => (pty_size = term_size /\ UNCHANGED <<pty_size, term_size>>)]_vars
    /\ [][(ia_pc = "top" /\ ia_pc' \in {"poll", "failed"}
           /\ window_size_changed)
            => /\ ~window_size_changed'
               /\ ia_pc' = "poll"
                    => (pty_size' = tty_size /\ term_size' = tty_size)
               /\ UNCHANGED ia_term]_vars

\* The emulator has been fed, the flag has been seen and cleared, and the
\* PTY and the emulator have both been resized to the terminal's size.
IAFedAfterResize ==
    /\ ia_term # <<>>
    /\ pty_size = tty_size
    /\ term_size = tty_size
    /\ ia_resized
    /\ ~window_size_changed

\* C18: while parent stdout takes what it is given, the bytes fed to the
\* emulator are the bytes the stdout ring accepted from the PTY, each once
\* and in order, and the bytes forwarded to parent stdout followed by those
\* still held in the ring are the same bytes in the same order.
IAEveryPtyByteFedAndForwarded ==
    stdout_state = "ok"
        => /\ ia_term = ia_pty_read
           /\ ia_stdout \o DrainAll(ia_stdout_buf) = ia_pty_read

\* C37: however the handler of SIGWINCH and the loop interleave, no change
\* of size is lost: the loop is never blocked in poll with the flag set and
\* not handled, and while it is blocked there with the flag clear the PTY
\* and the emulator have the size of the terminal.
WinchNeverBlockedUnhandled ==
    wsc_pc = "in_poll" =>
        /\ ~wsc_flag
        /\ wsc_pty = wsc_tty
        /\ wsc_term = wsc_tty

(***************************************************************************)
(* Properties of process_with_callback.                                    *)
(***************************************************************************)
\* The steps that process a clear of the screen or a setting or unsetting of
\* the alternate screen.
SignalledStep ==
    /\ em_steps' = em_steps + 1
    /\ \/ em_last'.name = "clear_screen"
       \/ /\ em_last'.name \in {"set_private_mode", "unset_private_mode"}
          /\ em_last'.arg = "SwapScreenAndSetRestoreCursor"

\* What alacritty_terminal does to emulator t on action a.
Applied(t, a) ==
    IF a.name = "clear_screen" THEN TermClearScreen(t, a.arg)
    ELSE IF a.name = "set_private_mode" THEN TermSetPrivateMode(t, a.arg)
    ELSE IF a.name = "unset_private_mode" THEN TermUnsetPrivateMode(t, a.arg)
    ELSE IF a.name = "input" THEN TermInput(t)
    ELSE t

\* C19: on a clear of the screen or an enabling or disabling of the
\* alternate screen, the callback is called exactly once, with the screen
\* as it was before the action, and the emulator is left as the action
\* makes it.
CbBeforeAction ==
    [][SignalledStep
        => /\ Len(cb_calls') = Len(cb_calls) + 1
           /\ Last(cb_calls').screen = current_screen(em_term)
           /\ SubSeq(cb_calls', 1, Len(cb_calls)) = cb_calls
           /\ em_term' = Applied(em_term, em_last')]_vars

\* ESC [ 2 J on a grid full of X: the callback saw the X, and the grid is
\* blank.
CbSawScreenBeforeClear ==
    /\ em_last = [name |-> "clear_screen", arg |-> "All"]
    /\ cb_calls # <<>>
    /\ Last(cb_calls) = [signal |-> ClearScreen, screen |-> <<"X", "X">>]
    /\ em_term.grid = Blank

\* C20: the callback is called with ClearScreen only on a clear of the whole
\* screen, with AlternateScreenBuffer{enable} only on the setting (true) or
\* unsetting (false) of SwapScreenAndSetRestoreCursor, and on nothing else.
CbOnlyForSignals ==
    [][Len(cb_calls') > Len(cb_calls)
        => \/ /\ Last(cb_calls').signal = ClearScreen
              /\ em_last' = [name |-> "clear_screen", arg |-> "All"]
           \/ /\ Last(cb_calls').signal = AlternateScreenBuffer(TRUE)
              /\ em_last' = [name |-> "set_private_mode",
                             arg |-> "SwapScreenAndSetRestoreCursor"]
           \/ /\ Last(cb_calls').signal = AlternateScreenBuffer(FALSE)
              /\ em_last' = [name |-> "unset_private_mode",
                             arg |-> "SwapScreenAndSetRestoreCursor"]]_vars

(***************************************************************************)
(* Properties of Term and Screen.                                          *)
(***************************************************************************)
\* C21: whatever size (at least 1 by 1) the Term was created with, whatever
\* it has processed and however it was resized, the Screen current_screen
\* returns has lines() * columns() cells, lines() and columns() being the
\* lines and columns of the emulator's grid; so has every Screen returned.
ScreenHasLinesTimesColumnsCells ==
    /\ tm_term # <<>>
         => LET scr == Screen_of(tm_term[1])
            IN  /\ scr.lines = tm_term[1].term.lines
                /\ scr.columns = tm_term[1].term.columns
                /\ Len(scr.cells) = scr.lines * scr.columns
    /\ \A k \in 1..Len(tm_screens) :
          Len(tm_screens[k].cells)
              = tm_screens[k].lines * tm_screens[k].columns

\* The whole stream processed, and two Screens of different sizes taken,
\* the later one after a resize.
ScreenTakenAfterResize ==
    /\ tm_bytes = <<>>
    /\ tm_resizes > 0
    /\ Len(tm_screens) > 1
    /\ Len(tm_screens[1].cells) # Len(tm_screens[2].cells)
    /\ tm_screens[2] = Screen_of(tm_term[1])

\* C22: processing a byte or resizing leaves every Screen taken before as it
\* was (cells, lines and columns), and taking a Screen leaves the Term as it
\* was.
ScreenIndependentOfTerm ==
    [][/\ Len(tm_screens') >= Len(tm_screens)
       /\ \A k \in 1..Len(tm_screens) : tm_screens'[k] = tm_screens[k]
       /\ tm_screens' # tm_screens => tm_term' = tm_term]_vars

\* A Screen taken of a Term that has since processed bytes and been resized,
\* and another taken after that.
ScreenOutlivedChanges ==
    /\ Len(tm_screens) > 1
    /\ tm_resizes > 0
    /\ tm_bytes = <<>>
    /\ tm_screens[1].cells # tm_screens[2].cells
    /\ tm_screens[1].lines # tm_term[1].lines

\* The text a stream writes, and the colour each SGR parameter stands for
\* as the snapshot prints it (lib.rs:16-23, colors.rs:47-48, 62).
StreamText(st) == st.prefix \o st.run \o st.suffix

ExpectedFg(param) ==
    IF param = 32 THEN <<"#", "8", "5", "9", "9", "0", "0">>
    ELSE IF param = 31 THEN <<"#", "d", "c", "3", "2", "2", "f">>
    ELSE <<"#", "8", "3", "9", "4", "9", "6">>

\* The stream has been processed to its end by a Term that was never
\* resized and whose grid holds the whole text.
StreamWritten ==
    /\ tm_term # <<>>
    /\ tm_bytes = <<>>
    /\ tm_resizes = 0
    /\ Len(StreamText(tm_stream[1])) <= tm_term[1].lines * tm_term[1].columns

\* C29: after a stream of some text, one SGR foreground colour, a run of
\* printable ASCII, a reset and some more text, the snapshot's cells of the
\* run print the colour of the SGR parameter (#859900 for 32), every other
\* cell prints the default #839496, and each character is in the cell it was
\* written to.
SgrRunCarriesColour ==
    StreamWritten =>
        LET st   == tm_stream[1]
            scr  == Screen_of(tm_term[1])
            text == StreamText(st)
        IN  \A y \in 0..(scr.lines - 1), x \in 0..(scr.columns - 1) :
               LET k == idx(scr, y, x) + 1
                   cell == get(scr, y, x)
               IN  /\ cell # <<>>
                   /\ cell[1].c = IF k <= Len(text) THEN Chr(text[k]) ELSE " "
                   /\ DisplayRgb(cell[1].fg)
                        = IF k > Len(st.prefix)
                             /\ k <= Len(st.prefix) + Len(st.run)
                          THEN ExpectedFg(st.sgr) ELSE ExpectedFg(0)

\* A snapshot taken of SGR 32 between two pieces of uncoloured text.
SgrGreenRunSnapshot ==
    /\ StreamWritten
    /\ tm_stream[1].sgr = 32
    /\ tm_stream[1].prefix # <<>>
    /\ tm_stream[1].suffix # <<>>
    /\ Len(tm_stream[1].run) > 1
    /\ tm_screens # <<>>
    /\ tm_screens[Len(tm_screens)] = Screen_of(tm_term[1])
    /\ DisplayRgb(get(tm_screens[Len(tm_screens)], 0, 1)[1].fg)
          = <<"#", "8", "5", "9", "9", "0", "0">>

(***************************************************************************)
(* Properties of main.                                                     *)
(***************************************************************************)
Printed(warning) == \E k \in 1..Len(main_stderr) : main_stderr[k] = warning

\* C30: with --interactive, main without --out fails and starts nothing;
\* with --out, once past its checks, it has printed the warning about stdin
\* exactly when stdin is not a terminal and the warning about stdout exactly
\* when stdout is not a terminal.
InteractiveChecks ==
    (main_cli # <<>> /\ main_cli[1].interactive
        /\ main_pc \notin {"parse", "interactive"})
    => IF ~main_cli[1].out
       THEN main_result = "Err" /\ main_started = "none"
       ELSE /\ Printed(WarnStdin) <=> ~main_cli[1].stdin_tty
            /\ Printed(WarnStdout) <=> ~main_cli[1].stdout_tty

(***************************************************************************)
(* Properties of Screen::to_svg.                                           *)
(***************************************************************************)
\* The rect elements of what was written, in the order written.
RectsWritten(out) ==
    SelectSeq(out.elements, LAMBDA el : el.tag = "rect")

TextsWritten(out) ==
    SelectSeq(out.elements, LAMBDA el : el.tag = "text")

\* The rect covers the cell of line y and column x.
Covers(rect, y, x) ==
    /\ rect.x <= x * font_metrics.advance
    /\ (x + 1) * font_metrics.advance <= rect.x + rect.width
    /\ rect.y <= y * font_metrics.line_height
    /\ (y + 1) * font_metrics.line_height <= rect.y + rect.height

\* The fill of the last rect written that covers the cell, <<>> if none.
Shown(rects, y, x) ==
    LET over == {j \in 1..Len(rects) : Covers(rects[j], y, x)}
    IN  IF over = {} THEN <<>>
        ELSE rects[CHOOSE j \in over : \A a \in over : a <= j].fill

BgAt(scr, y, x) == DisplayRgb(scr.cells[idx(scr, y, x) + 1].bg)

\* C23: once the rectangles written are painted in the order written, every
\* cell shows its own background: a rectangle after the first covers only
\* cells of its fill, and a cell that is not of the first rectangle's
\* colour is covered by a rectangle of its own colour.
BackgroundsShown ==
    \A k \in 1..Len(svg_out) :
        ~svg_out[k].panicked =>
            LET scr == Formatted
                rects == RectsWritten(svg_out[k])
            IN  \A y \in 0..(scr.lines - 1), x \in 0..(scr.columns - 1) :
                   /\ Shown(rects, y, x) = BgAt(scr, y, x)
                   /\ \A j \in 2..Len(rects) :
                         Covers(rects[j], y, x)
                             => rects[j].fill = BgAt(scr, y, x)
                   /\ BgAt(scr, y, x) # rects[1].fill
                         => \E j \in 2..Len(rects) :
                               /\ Covers(rects[j], y, x)
                               /\ rects[j].fill = BgAt(scr, y, x)

\* The cells whose background is not the default one.
NonDefault(scr) ==
    {i \in 1..Len(scr.cells) : scr.cells[i].bg # fill_named.Background}

\* C24: of a Screen of three cells or more with exactly one cell, at line y
\* and column x, of a background that is not the default, exactly two rects
\* are written: the one of the whole viewBox in the default colour, and one
\* of one cell by one cell at (x * advance, y * line_height).
SingleCellTwoRects ==
    \A k \in 1..Len(svg_out) :
        LET scr == Formatted
        IN  (Len(scr.cells) >= 3 /\ Cardinality(NonDefault(scr)) = 1)
            => LET i == CHOOSE i \in NonDefault(scr) : TRUE
                   y == (i - 1) \div scr.columns
                   x == (i - 1) % scr.columns
               IN  /\ ~svg_out[k].panicked
                   /\ RectsWritten(svg_out[k])
                        = <<Element("rect", 0, 0,
                                scr.columns * font_metrics.advance,
                                scr.lines * font_metrics.line_height,
                                DisplayRgb(fill_named.Background), <<>>),
                            Element("rect", x * font_metrics.advance,
                                y * font_metrics.line_height,
                                font_metrics.advance,
                                font_metrics.line_height,
                                DisplayRgb(scr.cells[i].bg), <<>>)>>

\* How many cells of the Screen have the background bg.
CellsOf(scr, bg) ==
    Cardinality({i \in 1..Len(scr.cells) : scr.cells[i].bg = bg})

Backgrounds(scr) == {scr.cells[i].bg : i \in 1..Len(scr.cells)}

\* C25: whatever the Screen, what is written has one svg element and one g
\* of class screen; its first rect has the fill of a background that no
\* other outnumbers and covers the viewBox, columns * advance wide and
\* lines * line_height high; and of a Screen of one background it is the
\* only rect.
OneSvgOneMainRect ==
    \A k \in 1..Len(svg_out) :
        LET scr == Formatted
            out == svg_out[k]
            rects == RectsWritten(out)
        IN  /\ ~out.panicked
            /\ Len(SelectSeq(out.elements, LAMBDA el : el.tag = "svg")) = 1
            /\ Len(SelectSeq(out.elements, LAMBDA el : el.tag = "/svg")) = 1
            /\ out.elements[1].tag = "svg"
            /\ out.elements[1].width = scr.columns * font_metrics.advance
            /\ out.elements[1].height = scr.lines * font_metrics.line_height
            /\ Len(SelectSeq(out.elements,
                     LAMBDA el : el.tag = "g" /\ el.content = <<"screen">>))
                  = 1
            /\ rects # <<>>
            /\ rects[1].x = 0
            /\ rects[1].y = 0
            /\ rects[1].width >= scr.columns * font_metrics.advance
            /\ rects[1].height >= scr.lines * font_metrics.line_height
            /\ scr.cells # <<>>
                  => \E main_bg \in Backgrounds(scr) :
                        /\ rects[1].fill = DisplayRgb(main_bg)
                        /\ \A bg \in Backgrounds(scr) :
                              CellsOf(scr, bg) <= CellsOf(scr, main_bg)
            /\ Cardinality(Backgrounds(scr)) <= 1 => Len(rects) = 1

\* C26: a Screen formatted twice gives the same text twice, also when two
\* or more backgrounds are the most common ones.
FormatDeterministic ==
    \A j, k \in 1..Len(svg_out) : svg_out[j] = svg_out[k]

\* A Screen with two backgrounds that tie for the most common one has been
\* formatted twice.
TieFormattedTwice ==
    /\ Len(svg_out) = 2
    /\ ~svg_out[1].panicked
    /\ \E f, g \in Backgrounds(Formatted) :
          /\ f # g
          /\ CellsOf(Formatted, f) = CellsOf(Formatted, g)
          /\ \A h \in Backgrounds(Formatted) :
                CellsOf(Formatted, h) <= CellsOf(Formatted, f)

\* C27: of the Screen of no lines and no columns the formatting completes
\* and writes the svg element with viewBox 0 0 0 0, the style, the g with a
\* single rect of fill #000000 and no text, and the two closing tags.
EmptyScreenSvg ==
    \A k \in 1..Len(svg_out) :
        (Formatted.lines = 0 /\ Formatted.columns = 0)
        => /\ ~svg_out[k].panicked
           /\ Len(svg_out[k].elements) = 6
           /\ [j \in 1..6 |-> svg_out[k].elements[j].tag]
                = <<"svg", "style", "g", "rect", "/g", "/svg">>
           /\ svg_out[k].elements[1].x = 0
           /\ svg_out[k].elements[1].y = 0
           /\ svg_out[k].elements[1].width = 0
           /\ svg_out[k].elements[1].height = 0
           /\ svg_out[k].elements[4].fill
                = <<"#", "0", "0", "0", "0", "0", "0">>

EmptyScreenFormatted ==
    /\ svg_screen # <<>>
    /\ Formatted.lines = 0
    /\ Formatted.columns = 0
    /\ svg_out # <<>>
    /\ RectsWritten(svg_out[1]) # <<>>

\* The characters of the cells a text element stands for.
RunOf(scr, el) ==
    LET y == ((el.y + font_metrics.descent) \div font_metrics.line_height) - 1
        x == el.x \div font_metrics.advance
    IN  [j \in 1..(el.width \div font_metrics.advance) |->
            scr.cells[idx(scr, y, x + j - 1) + 1].c]

\* What the character at place j of the run is to be written as.
Token(run, j) ==
    IF run[j] = "<" THEN <<"&", "l", "t", ";">>
    ELSE IF run[j] = "&" THEN <<"&", "a", "m", "p", ";">>
    ELSE IF run[j] = " " /\ j > 1 /\ run[j - 1] = " "
    THEN <<"&", "#", "1", "6", "0", ";">>
    ELSE <<run[j]>>

RECURSIVE Tokens(_, _)
Tokens(run, j) ==
    IF j > Len(run) THEN <<>> ELSE Token(run, j) \o Tokens(run, j + 1)

\* The content from place p on starts with the characters of entity.
StartsAt(content, p, entity) ==
    /\ p + Len(entity) - 1 <= Len(content)
    /\ SubSeq(content, p, p + Len(entity) - 1) = entity

\* C28: in every text element each < of the run is written &lt;, each &
\* is written &amp;, and of consecutive spaces the first is written as a
\* space and each following one &#160;; so the content has no <, no & that
\* does not start one of these three, and no two spaces next to each other.
TextEscaped ==
    \A k \in 1..Len(svg_out) :
        LET texts == TextsWritten(svg_out[k])
        IN  \A t \in 1..Len(texts) :
               LET content == texts[t].content
               IN  /\ content = Tokens(RunOf(Formatted, texts[t]), 1)
                   /\ \A p \in 1..Len(content) :
                         /\ content[p] # "<"
                         /\ content[p] = "&"
                              => \/ StartsAt(content, p, <<"&", "l", "t", ";">>)
                                 \/ StartsAt(content, p,
                                             <<"&", "a", "m", "p", ";">>)
                                 \/ StartsAt(content, p,
                                        <<"&", "#", "1", "6", "0", ";">>)
                         /\ (p > 1 /\ content[p] = " ")
                               => content[p - 1] # " "

\* A text element written for the run of <, two spaces and &.
EscapesWritten ==
    /\ svg_out # <<>>
    /\ \E t \in 1..Len(TextsWritten(svg_out[1])) :
          /\ RunOf(Formatted, TextsWritten(svg_out[1])[t])
                = <<"<", " ", " ", "&">>
          /\ TextsWritten(svg_out[1])[t].content
                = <<"&", "l", "t", ";", " ", "&", "#", "1", "6", "0", ";",
                    "&", "a", "m", "p", ";">>

\* The cells a rect stands for: its first and last column and line.
SpanOf(rect) ==
    [x0 |-> rect.x \div font_metrics.advance,
     y0 |-> rect.y \div font_metrics.line_height,
     end_x |-> ((rect.x + rect.width) \div font_metrics.advance) - 1,
     end_y |-> ((rect.y + rect.height) \div font_metrics.line_height) - 1]

\* C31: a rectangle written after the first, starting at (y0, x0) and
\* spanning the columns x0..end_x, reaches down to line y exactly when on
\* every line from y0 + 1 to y every cell of the columns x0 + 1..end_x has
\* the rectangle's colour; the columns right of end_x play no part.
ExtendedDownByOwnColumns ==
    \A k \in 1..Len(svg_out) :
        ~svg_out[k].panicked =>
            LET scr == Formatted
                rects == RectsWritten(svg_out[k])
            IN  \A j \in 2..Len(rects) :
                   LET span == SpanOf(rects[j])
                   IN  \A y \in (span.y0 + 1)..(scr.lines - 1) :
                          (y <= span.end_y)
                          <=> \A y1 \in (span.y0 + 1)..y,
                                 x1 \in (span.x0 + 1)..span.end_x :
                                 BgAt(scr, y1, x1) = rects[j].fill

\* The cells a text element stands for: its line, its first column and how
\* many characters it holds.
TextSpanOf(el) ==
    [y |-> ((el.y + font_metrics.descent) \div font_metrics.line_height) - 1,
     s |-> el.x \div font_metrics.advance,
     n |-> el.width \div font_metrics.advance]

\* The text elements that hold the cell of line y and column x.
HoldersOf(texts, y, x) ==
    {t \in 1..Len(texts) :
        /\ TextSpanOf(texts[t]).y = y
        /\ TextSpanOf(texts[t]).s <= x
        /\ x < TextSpanOf(texts[t]).s + TextSpanOf(texts[t]).n}

\* What C32 and its amendment share: each text element holds the
\* characters of the cells from its start on, all of its fill, and neither
\* starts with a space nor ends with white space; no cell is in two text
\* elements; a line of spaces has no text element.
TextRunsOfCells(scr, texts) ==
    /\ \A t \in 1..Len(texts) :
          LET span == TextSpanOf(texts[t])
              run == RunOf(scr, texts[t])
          IN  /\ span.y \in 0..(scr.lines - 1)
              /\ span.s + span.n <= scr.columns
              /\ texts[t].x = span.s * font_metrics.advance
              /\ texts[t].width = span.n * font_metrics.advance
              /\ texts[t].content = Tokens(run, 1)
              /\ \A k \in 0..(span.n - 1) :
                    DisplayRgb(scr.cells[idx(scr, span.y, span.s + k) + 1].fg)
                        = texts[t].fill
              /\ span.n > 0 => run[1] # " " /\ ~is_whitespace(run[span.n])
    /\ \A y \in 0..(scr.lines - 1) :
          /\ \A x \in 0..(scr.columns - 1) :
                Cardinality(HoldersOf(texts, y, x)) <= 1
          /\ (\A x \in 0..(scr.columns - 1) :
                 scr.cells[idx(scr, y, x) + 1].c = " ")
             => \A t \in 1..Len(texts) : TextSpanOf(texts[t]).y # y

\* C32 as stated: each text element holds the characters of its cells, of
\* one style, starts with no space and ends with no white space, and every
\* cell that is not a space is in exactly one text element.
TextRunsHoldEveryNonSpace ==
    \A k \in 1..Len(svg_out) :
        ~svg_out[k].panicked =>
            LET scr == Formatted
                texts == TextsWritten(svg_out[k])
            IN  /\ TextRunsOfCells(scr, texts)
                /\ \A y \in 0..(scr.lines - 1), x \in 0..(scr.columns - 1) :
                      scr.cells[idx(scr, y, x) + 1].c # " "
                          => Cardinality(HoldersOf(texts, y, x)) = 1

\* C32 amended: the same, with every cell that is not white space in
\* exactly one text element; white space other than the space is in one or,
\* where it ends a run, in none.
TextRunsHoldEveryNonWhitespace ==
    \A k \in 1..Len(svg_out) :
        ~svg_out[k].panicked =>
            LET scr == Formatted
                texts == TextsWritten(svg_out[k])
            IN  /\ TextRunsOfCells(scr, texts)
                /\ \A y \in 0..(scr.lines - 1), x \in 0..(scr.columns - 1) :
                      ~is_whitespace(scr.cells[idx(scr, y, x) + 1].c)
                          => Cardinality(HoldersOf(texts, y, x)) = 1

\* A line of a letter, a space, a letter and a tab has been formatted: the
\* text element holds the first three and the tab is in none.
TrailingTabTrimmed ==
    /\ svg_out # <<>>
    /\ ~svg_out[1].panicked
    /\ Formatted.lines = 1
    /\ [x \in 1..Len(Formatted.cells) |-> Formatted.cells[x].c]
          = <<"a", " ", "a", "\t">>
    /\ Len(TextsWritten(svg_out[1])) = 1
    /\ TextSpanOf(TextsWritten(svg_out[1])[1]).n = 3
    /\ HoldersOf(TextsWritten(svg_out[1]), 0, 3) = {}

\* The background no other outnumbers is the fill of the first rect.
MainRectMostFrequent(scr, out) ==
    \E main_bg \in Backgrounds(scr) :
        /\ RectsWritten(out)[1].fill = DisplayRgb(main_bg)
        /\ \A bg \in Backgrounds(scr) :
              CellsOf(scr, bg) <= CellsOf(scr, main_bg)

\* C38: whatever the lines and columns of the Screen, both 16 bits wide,
\* the count that finds the main colour does not overflow and runs over
\* lines * columns cells, the product as a number, also from 65536 cells
\* on; and the main colour is the most frequent background of them.
TallyCountsEveryCell ==
    \A k \in 1..Len(svg_out) :
        /\ svg_out[k].why # "overflow"
        /\ cells_counted(Formatted) = Formatted.lines * Formatted.columns
        /\ (~svg_out[k].panicked /\ Formatted.cells # <<>>)
              => MainRectMostFrequent(Formatted, svg_out[k])

\* C39: the formatting indexes no cell out of bounds whatever the lines and
\* columns; of a Screen of no lines or of no columns it completes and
\* writes the svg element to its closing tag with no text element.
NeverOutOfBounds ==
    \A k \in 1..Len(svg_out) :
        /\ svg_out[k].why # "index"
        /\ (Formatted.lines = 0 \/ Formatted.columns = 0)
              => /\ ~svg_out[k].panicked
                 /\ svg_out[k].elements[1].tag = "svg"
                 /\ svg_out[k].elements[Len(svg_out[k].elements)].tag = "/svg"
                 /\ TextsWritten(svg_out[k]) = <<>>

(***************************************************************************)
(* Properties of the colour table.                                         *)
(***************************************************************************)
\* The channel of a cube entry for an axis.
CubeChannel(axis) == IF axis = 0 THEN 0 ELSE 40 * axis + 55

\* C40: after Colors::default every slot to_rgb can read (the named
\* colours at 0..15 and 256..268, the indexed ones at 0..255) holds a
\* colour, so to_rgb finds one whatever it is asked; the cube entry
\* 16 + 36r + 6g + b has the channels 0 for an axis of 0 and else
\* 40 * axis + 55; the gray entry 232 + i has three channels of 10i + 8;
\* every channel is in 0..255.
PaletteTotalAndFixed ==
    /\ col_table # <<>>
         => LET colors == col_table[1]
            IN  /\ \A i \in (0..255) \cup (256..268) :
                      /\ At(colors, i) # <<>>
                      /\ At(colors, i)[1].r \in 0..255
                      /\ At(colors, i)[1].g \in 0..255
                      /\ At(colors, i)[1].b \in 0..255
                /\ \A r, g, b \in 0..5 :
                      At(colors, 16 + 36 * r + 6 * g + b)
                          = <<[r |-> CubeChannel(r), g |-> CubeChannel(g),
                               b |-> CubeChannel(b)]>>
                /\ \A i \in 0..23 :
                      At(colors, 232 + i)
                          = <<[r |-> 10 * i + 8, g |-> 10 * i + 8,
                               b |-> 10 * i + 8]>>
    /\ col_result # <<>> => col_result[2] # <<>>

\* to_rgb has been asked for the last entry of the cube and found white.
CubeCornerResolved ==
    /\ col_result # <<>>
    /\ col_result[1] = Indexed(231)
    /\ col_result[2] = <<[r |-> 255, g |-> 255, b |-> 255]>>
====
